---------------------------- MODULE Spec2Model ----------------------------
(***************************************************************************)
(* A model of the conversation orchestration code of reachy-mini-mcp:      *)
(*   chat_app.py              InteractiveChatApp  (typed input, summary)   *)
(*   chat_app_openai.py       InteractiveChatApp  (typed input, no MCP)    *)
(*   conversation_app_mcp.py  ConversationApp     (speech-triggered)       *)
(*   chat_completions_mcp.py  MCPChatClient       (one-shot conversation)  *)
(*   conversation_app.py      ConversationApp     (streaming parser)       *)
(*   server.py                operate_robot       (command sequences)      *)
(*                                                                         *)
(* Text.  A Python str is a sequence of lexemes (tokens).  A token is a    *)
(* record [k, c, s]: k is its kind ("p" punctuation, "w" a word of prose,  *)
(* "ws" white space,                                                       *)
(* "num" a number literal, "lit" one of true/false/null, "str" a quoted    *)
(* JSON string literal), c its spelling and, for a string literal, s the   *)
(* text between its quotes (again a sequence of tokens).  The empty        *)
(* sequence stands for "", and also for None wherever the code only tests  *)
(* truthiness.                                                             *)
(*                                                                         *)
(* JSON values (what json.loads returns) are tagged records [t, v]:        *)
(* "dict" (v a function from key text to value), "list", "str", "num",     *)
(* "bool", "null".                                                         *)
(***************************************************************************)
EXTENDS Integers, Sequences, FiniteSets, TLC

-----------------------------------------------------------------------------
(* Text and tokens *)

P(c) == [k |-> "p", c |-> c, s |-> <<>>]

W(c) == [k |-> "w", c |-> c, s |-> <<>>]

Num(c) == [k |-> "num", c |-> c, s |-> <<>>]

Lit(c) == [k |-> "lit", c |-> c, s |-> <<>>]

Q(s) == [k |-> "str", c |-> "", s |-> s]

\* white space
WS == [k |-> "ws", c |-> " ", s |-> <<>>]

\* The Python str whose text is the single word c, e.g. Word("null") is 'null'.
Word(c) == <<W(c)>>

None == <<>>

-----------------------------------------------------------------------------
(* JSON values *)

JStr(s) == [t |-> "str", v |-> s]

JNum(c) == [t |-> "num", v |-> c]

JBool(b) == [t |-> "bool", v |-> b]

JNull == [t |-> "null", v |-> 0]

JList(seq) == [t |-> "list", v |-> seq]

JDict(f) == [t |-> "dict", v |-> f]

EmptyMap == [x \in {} |-> 0]

\* isinstance(x, dict)
IsDict(x) == x.t = "dict"

\* isinstance(x, str)
IsStr(x) == x.t = "str"

\* d with d[key] = val added or overwritten (Python: d[key] = val)
MapPut(f, key, val) == [x \in DOMAIN f \cup {key} |-> IF x = key THEN val ELSE f[x]]

-----------------------------------------------------------------------------
(* json.loads: a recursive-descent parse of a token sequence.  A result is *)
(* [ok, val, next]; next is the index after the value parsed.              *)

ParseFail == [ok |-> FALSE, val |-> JNull, next |-> 0]

ParseOk(val, next) == [ok |-> TRUE, val |-> val, next |-> next]

RECURSIVE ParseValue(_, _)
RECURSIVE ParseMembers(_, _, _)
RECURSIVE ParseElements(_, _, _)

ParseValue(t, i) ==
    IF i > Len(t) THEN ParseFail
    ELSE LET tok == t[i] IN
         CASE tok.k = "str" -> ParseOk(JStr(tok.s), i + 1)
           [] tok.k = "num" -> ParseOk(JNum(tok.c), i + 1)
           [] tok.k = "lit" ->
                 ParseOk(IF tok.c = "null" THEN JNull ELSE JBool(tok.c = "true"), i + 1)
           [] tok = P("{") ->
                 IF i + 1 <= Len(t) /\ t[i + 1] = P("}")
                 THEN ParseOk(JDict(EmptyMap), i + 2)
                 ELSE ParseMembers(t, i + 1, EmptyMap)
           [] tok = P("[") ->
                 IF i + 1 <= Len(t) /\ t[i + 1] = P("]")
                 THEN ParseOk(JList(<<>>), i + 2)
                 ELSE ParseElements(t, i + 1, <<>>)
           [] OTHER -> ParseFail

\* key : value , key : value ... }      (a repeated key keeps the last value)
ParseMembers(t, i, acc) ==
    IF i + 1 > Len(t) \/ t[i].k # "str" \/ t[i + 1] # P(":") THEN ParseFail
    ELSE LET r == ParseValue(t, i + 2) IN
         IF ~r.ok \/ r.next > Len(t) THEN ParseFail
         ELSE LET acc2 == MapPut(acc, t[i].s, r.val) IN
              CASE t[r.next] = P("}") -> ParseOk(JDict(acc2), r.next + 1)
                [] t[r.next] = P(",") -> ParseMembers(t, r.next + 1, acc2)
                [] OTHER -> ParseFail

\* value , value ... ]
ParseElements(t, i, acc) ==
    LET r == ParseValue(t, i) IN
    IF ~r.ok \/ r.next > Len(t) THEN ParseFail
    ELSE LET acc2 == Append(acc, r.val) IN
         CASE t[r.next] = P("]") -> ParseOk(JList(acc2), r.next + 1)
           [] t[r.next] = P(",") -> ParseElements(t, r.next + 1, acc2)
           [] OTHER -> ParseFail

IsNotSpace(tok) == tok.k # "ws"

\* json.loads(text): white space between tokens is skipped; ok is FALSE where Python raises json.JSONDecodeError
\* (no value, or extra data after it).
JsonLoads(text) ==
    LET t == SelectSeq(text, IsNotSpace)
        r == ParseValue(t, 1)
    IN  IF r.ok /\ r.next = Len(t) + 1 THEN [ok |-> TRUE, val |-> r.val]
        ELSE [ok |-> FALSE, val |-> JNull]

-----------------------------------------------------------------------------
(* json.dumps: the text of a JSON value.  The keys of a dict are written   *)
(* in one fixed order (the model keeps no insertion order).                *)

KeyOrder(S) == CHOOSE q \in [1..Cardinality(S) -> S] : \A x \in S : \E i \in DOMAIN q : q[i] = x

RECURSIVE JsonDumps(_)
RECURSIVE DumpMembers(_, _, _)
RECURSIVE DumpElements(_, _)

JsonDumps(x) ==
    CASE x.t = "str" -> <<Q(x.v)>>
      [] x.t = "num" -> <<Num(x.v)>>
      [] x.t = "bool" -> <<Lit(IF x.v THEN "true" ELSE "false")>>
      [] x.t = "null" -> <<Lit("null")>>
      [] x.t = "list" -> <<P("[")>> \o DumpElements(x.v, 1) \o <<P("]")>>
      [] x.t = "dict" -> <<P("{")>> \o DumpMembers(x.v, KeyOrder(DOMAIN x.v), 1) \o <<P("}")>>

DumpMembers(f, keys, i) ==
    IF i > Len(keys) THEN <<>>
    ELSE (IF i > 1 THEN <<P(",")>> ELSE <<>>)
         \o <<Q(keys[i]), P(":")>> \o JsonDumps(f[keys[i]]) \o DumpMembers(f, keys, i + 1)

DumpElements(seq, i) ==
    IF i > Len(seq) THEN <<>>
    ELSE (IF i > 1 THEN <<P(",")>> ELSE <<>>) \o JsonDumps(seq[i]) \o DumpElements(seq, i + 1)

-----------------------------------------------------------------------------
(* Bounds of the model *)

\* The iteration budget of a turn.  The source sets 10 (chat_app.py:487,
\* conversation_app_mcp.py:573) and 5 (chat_completions_mcp.py:234); the loops
\* are uniform in the budget and the model runs them with a smaller one.
MaxIterations == 2

\* The most tool calls the backend puts in one assistant message.
MaxCalls == 3

\* The history the model lets a session grow to: room for the system and a
\* user message and for a turn that spends its budget on single tool calls.
MaxMessages == 2 + 2 * MaxIterations

-----------------------------------------------------------------------------
(* The tool catalog and the values the environment supplies *)

\* self.mcp_tools: the names loaded by initialize_mcp, fixed afterwards
mcp_tools == {Word("nod_head"), Word("operate_robot")}

\* self.system_prompt
system_prompt == Word("You are Reachy.")

UserTexts == {Word("Hello, I just said something to you.")}

PlainText == Word("Hi there!")

\* '{"name": "nod_head", "parameters": {}}'
JsonKnownTool ==
    <<P("{"), Q(Word("name")), P(":"), Q(Word("nod_head")), P(","),
      Q(Word("parameters")), P(":"), P("{"), P("}"), P("}")>>

\* '{"name": "nod_head", "parameters": []}'
JsonKnownToolList ==
    <<P("{"), Q(Word("name")), P(":"), Q(Word("nod_head")), P(","),
      Q(Word("parameters")), P(":"), P("["), P("]"), P("}")>>

\* The values of content in a backend response: none, prose, a tool call as
\* text with a mapping of parameters, and one with a list of parameters.
Contents == {None, PlainText, JsonKnownTool, JsonKnownToolList}

FinishReasons == {"stop", "tool_calls", "length", "content_filter"}

\* The arguments field of a native tool call: '{}' and, ill-formed, '[]'.
ArgsMapping == JStr(<<P("{"), P("}")>>)

ArgsList == JStr(<<P("["), P("]")>>)

\* The k-th native tool call of a response; its arguments are not a mapping
\* when k = bad (the second or the last call of a response, or none: bad = 0).
NativeCall(k, bad) ==
    [id |-> <<"tc", k>>, type |-> "function",
     function |-> [name |-> Word("nod_head"),
                   arguments |-> IF k = bad THEN ArgsList ELSE ArgsMapping]]

\* The tool_calls fields of a response: absent ("absent"), or a list of n calls.
ToolCallsOf(n, bad) == [k \in 1..n |-> NativeCall(k, bad)]

AssistantMessage(content, withKey, n, bad) ==
    IF withKey
    THEN [role |-> "assistant", content |-> content, tool_calls |-> ToolCallsOf(n, bad)]
    ELSE [role |-> "assistant", content |-> content]

\* choices[0] of the response envelopes the model's backend may return: no
\* tool_calls key with every content; an empty tool_calls list; one native call
\* with or without prose under every finish_reason; two to MaxCalls native
\* calls; a native call next to a tool call as text.
Responses ==
    { [message |-> AssistantMessage(c, FALSE, 0, 0), finish_reason |-> fr] :
        c \in Contents, fr \in FinishReasons }
    \cup
    { [message |-> AssistantMessage(c, TRUE, 0, 0), finish_reason |-> fr] :
        c \in {None, PlainText}, fr \in {"stop", "tool_calls"} }
    \cup
    { [message |-> AssistantMessage(c, TRUE, 1, bad), finish_reason |-> fr] :
        c \in {None, PlainText}, bad \in {0, 1}, fr \in FinishReasons }
    \cup
    UNION { { [message |-> AssistantMessage(None, TRUE, n, bad), finish_reason |-> fr] :
                bad \in {0, 2, n}, fr \in {"stop", "tool_calls"} } :
            n \in 2..MaxCalls }
    \cup
    { [message |-> AssistantMessage(JsonKnownTool, TRUE, 1, 0), finish_reason |-> "stop"] }

\* The responses of a backend that answers with prose or with one tool call
SpeechResponses ==
    { [message |-> AssistantMessage(PlainText, FALSE, 0, 0), finish_reason |-> "stop"],
      [message |-> AssistantMessage(None, TRUE, 1, 0), finish_reason |-> "tool_calls"] }

\* What mcp_session.call_tool returns: a CallToolResult, here as model_dump().
ToolResult(texts) ==
    JDict((Word("content") :> JList([i \in DOMAIN texts |->
                                       JDict(Word("text") :> JStr(texts[i]))]))
          @@ (Word("isError") :> JBool(FALSE)))

ToolResults == {ToolResult(<<Word("done")>>)}

\* conversation_app_mcp.py reads content[0] of the result: in the sessions
\* driven by speech events the content list may also be empty
CM_ToolResults == ToolResults \cup {ToolResult(<<>>)}

\* str(e) of an exception raised by call_tool
ToolErrors == {Word("daemon unreachable")}

-----------------------------------------------------------------------------
(* Messages *)

\* msg.get(key), with the default for a missing key
Get(msg, key, default) == IF key \in DOMAIN msg THEN msg[key] ELSE default

\* del msg[key]
Del(msg, key) == [x \in DOMAIN msg \ {key} |-> msg[x]]

\* bool(msg.get("tool_calls"))
HasToolCalls(msg) == Get(msg, "tool_calls", <<>>) # <<>>

UserMessage(text) == [role |-> "user", content |-> text]

SystemMessage(text) == [role |-> "system", content |-> text]

\* A faulty variant of the tool message: it carries a fixed id, not the id of
\* the call it answers.
ToolMessage_FixedId(id, name, content) ==
    [role |-> "tool", tool_call_id |-> <<"tc", 0>>, name |-> name, content |-> content]

\* tool_result_msg / tool_result_message of the tool loops
ToolMessage(id, name, content) ==
    [role |-> "tool", tool_call_id |-> id, name |-> name, content |-> content]

\* seq[-1] = x
SetLast(seq, x) == [seq EXCEPT ![Len(seq)] = x]

-----------------------------------------------------------------------------
(* chat_app.py: the pure helpers of InteractiveChatApp *)

RECURSIVE LStrip(_)
RECURSIVE RStrip(_)

LStrip(text) == IF text # <<>> /\ text[1].k = "ws" THEN LStrip(Tail(text)) ELSE text

RStrip(text) ==
    IF text # <<>> /\ text[Len(text)].k = "ws"
    THEN RStrip(SubSeq(text, 1, Len(text) - 1)) ELSE text

\* str.strip()
Strip(text) == LStrip(RStrip(text))

\* stripped.startswith('[') and stripped.endswith(']'), or the same with { }
LooksLikeJson(text) ==
    /\ text # <<>>
    /\ \/ text[1] = P("[") /\ text[Len(text)] = P("]")
       \/ text[1] = P("{") /\ text[Len(text)] = P("}")

RECURSIVE CA_fix_double_encoded_params(_)

\* InteractiveChatApp._fix_double_encoded_params
CA_fix_double_encoded_params(params) ==
    IF ~IsDict(params) THEN params
    ELSE JDict([key \in DOMAIN params.v |->
                  LET value == params.v[key] IN
                  IF IsStr(value)
                  THEN IF LooksLikeJson(Strip(value.v))
                       THEN LET r == JsonLoads(value.v) IN
                            IF r.ok THEN r.val ELSE value
                       ELSE value
                  ELSE IF IsDict(value) THEN CA_fix_double_encoded_params(value)
                  ELSE value])

\* content.find('{') and content.rfind('}'), 0 for -1
Find(text, tok) ==
    IF \E i \in DOMAIN text : text[i] = tok
    THEN CHOOSE i \in DOMAIN text : text[i] = tok /\ \A j \in 1..(i - 1) : text[j] # tok
    ELSE 0

RFind(text, tok) ==
    IF \E i \in DOMAIN text : text[i] = tok
    THEN CHOOSE i \in DOMAIN text : text[i] = tok /\ \A j \in (i + 1)..Len(text) : text[j] # tok
    ELSE 0

\* What _parse_tool_call_from_content gives: None (found is FALSE), a dict with
\* name and arguments (found is TRUE), or an exception that leaves it (raised
\* names its type).
NoToolCall == [found |-> FALSE, name |-> None, arguments |-> JNull, raised |-> ""]

\* An exception of type exc leaves _parse_tool_call_from_content
ParseRaised(exc) == [found |-> FALSE, name |-> None, arguments |-> JNull, raised |-> exc]

\* A faulty variant of the checks on the parsed value: the name is not looked
\* up in the known tools.
CA_tool_call_of_any_name(parsed) ==
    IF IsDict(parsed) /\ Word("name") \in DOMAIN parsed.v /\ IsStr(parsed.v[Word("name")])
    THEN [found |-> TRUE, name |-> parsed.v[Word("name")].v,
          arguments |-> CA_fix_double_encoded_params(
                            IF Word("parameters") \in DOMAIN parsed.v
                            THEN parsed.v[Word("parameters")] ELSE JDict(EmptyMap)),
          raised |-> ""]
    ELSE NoToolCall

\* The checks made on the parsed value: a dict with a "name" that is a known tool.
CA_tool_call_of(parsed) ==
    IF IsDict(parsed) /\ Word("name") \in DOMAIN parsed.v
    THEN LET func_name == parsed.v[Word("name")]
             parameters == IF Word("parameters") \in DOMAIN parsed.v
                           THEN parsed.v[Word("parameters")]
                           ELSE JDict(EmptyMap)
         IN  IF IsStr(func_name) /\ func_name.v \in mcp_tools
             THEN [found |-> TRUE, name |-> func_name.v,
                   arguments |-> CA_fix_double_encoded_params(parameters), raised |-> ""]
             ELSE NoToolCall
    ELSE NoToolCall

\* A faulty variant of _parse_tool_call_from_content: the test for the braces
\* is missing, the whole content is parsed, and the json.JSONDecodeError of
\* the retry is not caught.
CA_parse_tool_call_from_content_no_braces_test(content) ==
    IF content = <<>> \/ Strip(content) = <<>> THEN NoToolCall
    ELSE LET first == JsonLoads(content)
             second == JsonLoads(content \o <<P("}")>>)
         IN  IF first.ok THEN CA_tool_call_of(first.val)
             ELSE IF second.ok THEN CA_tool_call_of(second.val)
             ELSE ParseRaised("json.JSONDecodeError")

\* A faulty variant of _parse_tool_call_from_content: no retry with a closing
\* brace appended.
CA_parse_tool_call_from_content_no_retry(content) ==
    IF content = <<>> \/ Strip(content) = <<>> THEN NoToolCall
    ELSE LET start_index == Find(content, P("{"))
             end_index == RFind(content, P("}"))
         IN  IF start_index = 0 \/ end_index = 0 \/ end_index < start_index
             THEN NoToolCall
             ELSE LET json_str == SubSeq(content, start_index, end_index)
                      first == JsonLoads(json_str)
                  IN  IF first.ok THEN CA_tool_call_of(first.val)
                      ELSE NoToolCall

\* InteractiveChatApp._parse_tool_call_from_content: json.JSONDecodeError of
\* the first json.loads leads to the retry with '}' appended, that of the retry
\* to the outer except clause and to return None
CA_parse_tool_call_from_content(content) ==
    IF content = <<>> \/ Strip(content) = <<>> THEN NoToolCall
    ELSE LET start_index == Find(content, P("{"))
             end_index == RFind(content, P("}"))
         IN  IF start_index = 0 \/ end_index = 0 \/ end_index < start_index
             THEN NoToolCall
             ELSE LET json_str == SubSeq(content, start_index, end_index)
                      first == JsonLoads(json_str)
                      second == JsonLoads(json_str \o <<P("}")>>)
                  IN  IF first.ok THEN CA_tool_call_of(first.val)
                      ELSE IF second.ok THEN CA_tool_call_of(second.val)
                      ELSE NoToolCall

\* A faulty variant of _clean_tool_arguments: "None" is rewritten to "null"
\* instead of being omitted.
CA_clean_tool_arguments_rewrite(arguments) ==
    LET kept == {key \in DOMAIN arguments.v : arguments.v[key] # JStr(Word("null"))}
    IN  JDict([key \in kept |->
                 LET value == arguments.v[key] IN
                 IF value = JStr(Word("None")) THEN JStr(Word("null"))
                 ELSE IF value = JStr(Word("true")) THEN JBool(TRUE)
                 ELSE IF value = JStr(Word("false")) THEN JBool(FALSE)
                 ELSE value])

\* A faulty variant of _clean_tool_arguments: nothing is omitted or converted.
CA_clean_tool_arguments_keep(arguments) == arguments

\* InteractiveChatApp._clean_tool_arguments; arguments is a dict (the caller
\* raises AttributeError on arguments.items() otherwise)
CA_clean_tool_arguments(arguments) ==
    LET kept == {key \in DOMAIN arguments.v :
                   arguments.v[key] \notin {JStr(Word("null")), JStr(Word("None"))}}
    IN  JDict([key \in kept |->
                 LET value == arguments.v[key] IN
                 IF value = JStr(Word("true")) THEN JBool(TRUE)
                 ELSE IF value = JStr(Word("false")) THEN JBool(FALSE)
                 ELSE value])

RECURSIVE CA_prepare_from_key_present(_, _, _)

\* A faulty variant of the loop of _prepare_messages_for_api: the flag
\* last_assistant_had_tool_calls is set when the assistant message has the key
\* tool_calls, whatever its value.
CA_prepare_from_key_present(msgs, i, last_assistant_had_tool_calls) ==
    IF i > Len(msgs) THEN <<>>
    ELSE LET msg == msgs[i]
             role == Get(msg, "role", "")
         IN  IF role = "assistant"
             THEN LET msg_copy == IF "tool_calls" \in DOMAIN msg /\ msg.tool_calls = <<>>
                                  THEN Del(msg, "tool_calls") ELSE msg
                  IN  <<msg_copy>> \o CA_prepare_from_key_present(msgs, i + 1,
                                          "tool_calls" \in DOMAIN msg)
             ELSE IF role = "tool"
             THEN (IF last_assistant_had_tool_calls THEN <<msg>> ELSE <<>>)
                  \o CA_prepare_from_key_present(msgs, i + 1, last_assistant_had_tool_calls)
             ELSE <<msg>> \o CA_prepare_from_key_present(msgs, i + 1,
                                 IF role = "user" THEN FALSE
                                 ELSE last_assistant_had_tool_calls)

RECURSIVE CA_prepare_from_no_reset(_, _, _)

\* A faulty variant of the loop of _prepare_messages_for_api: a user message
\* does not reset last_assistant_had_tool_calls.
CA_prepare_from_no_reset(msgs, i, last_assistant_had_tool_calls) ==
    IF i > Len(msgs) THEN <<>>
    ELSE LET msg == msgs[i]
             role == Get(msg, "role", "")
         IN  IF role = "assistant"
             THEN LET msg_copy == IF "tool_calls" \in DOMAIN msg /\ msg.tool_calls = <<>>
                                  THEN Del(msg, "tool_calls") ELSE msg
                  IN  <<msg_copy>> \o CA_prepare_from_no_reset(msgs, i + 1, HasToolCalls(msg))
             ELSE IF role = "tool"
             THEN (IF last_assistant_had_tool_calls THEN <<msg>> ELSE <<>>)
                  \o CA_prepare_from_no_reset(msgs, i + 1, last_assistant_had_tool_calls)
             ELSE <<msg>> \o CA_prepare_from_no_reset(msgs, i + 1,
                                 last_assistant_had_tool_calls)

RECURSIVE CA_prepare_from(_, _, _)

\* The loop of _prepare_messages_for_api from message i on
CA_prepare_from(msgs, i, last_assistant_had_tool_calls) ==
    IF i > Len(msgs) THEN <<>>
    ELSE LET msg == msgs[i]
             role == Get(msg, "role", "")
         IN  IF role = "assistant"
             THEN LET msg_copy == IF "tool_calls" \in DOMAIN msg /\ msg.tool_calls = <<>>
                                  THEN Del(msg, "tool_calls") ELSE msg
                  IN  <<msg_copy>> \o CA_prepare_from(msgs, i + 1, HasToolCalls(msg))
             ELSE IF role = "tool"
             THEN (IF last_assistant_had_tool_calls THEN <<msg>> ELSE <<>>)
                  \o CA_prepare_from(msgs, i + 1, last_assistant_had_tool_calls)
             ELSE <<msg>> \o CA_prepare_from(msgs, i + 1,
                                 IF role = "user" THEN FALSE
                                 ELSE last_assistant_had_tool_calls)

\* InteractiveChatApp._prepare_messages_for_api
CA_prepare_messages_for_api(msgs) == CA_prepare_from(msgs, 1, FALSE)

-----------------------------------------------------------------------------
(* chat_app.py: the conversation summary *)

RECURSIVE Join(_, _)

\* sep.join(parts)
Join(parts, sep) ==
    IF parts = <<>> THEN <<>>
    ELSE IF Len(parts) = 1 THEN parts[1]
    ELSE parts[1] \o sep \o Join(Tail(parts), sep)

\* [tc.get("function", {}).get("name", "unknown") for tc in msg["tool_calls"]]
ToolNames(calls) == [i \in DOMAIN calls |-> calls[i].function.name]

\* The two lines of one exchange
ExchangeLines(user_msg, response) ==
    <<<<W("User: ")>> \o user_msg, <<W("Reachy: ")>> \o response>>

RECURSIVE CA_summary_lines(_, _, _, _, _)

\* The loop of _generate_conversation_summary from message i on, and the
\* lines it has produced when the loop ends
CA_summary_lines(msgs, i, lines, current_user_msg, current_assistant_response) ==
    IF i > Len(msgs)
    THEN IF current_user_msg # None /\ current_assistant_response # None
         THEN lines \o ExchangeLines(current_user_msg, current_assistant_response)
         ELSE lines
    ELSE LET msg == msgs[i]
             role == Get(msg, "role", "")
             content == Get(msg, "content", None)
         IN  IF role = "user"
             THEN CA_summary_lines(msgs, i + 1,
                      IF current_user_msg # None /\ current_assistant_response # None
                      THEN lines \o ExchangeLines(current_user_msg, current_assistant_response)
                                 \o <<None>>
                      ELSE lines,
                      content, None)
             ELSE IF role = "assistant"
             THEN LET r1 == IF content # None
                            THEN IF current_assistant_response # None
                                 THEN current_assistant_response \o <<W(" ")>> \o content
                                 ELSE content
                            ELSE current_assistant_response
                      tool_note == <<W("[Used tools: ")>>
                                   \o Join(ToolNames(Get(msg, "tool_calls", <<>>)), <<W(", ")>>)
                                   \o <<W("]")>>
                      r2 == IF HasToolCalls(msg)
                            THEN IF r1 # None THEN r1 \o <<W(" ")>> \o tool_note
                                 ELSE tool_note
                            ELSE r1
                  IN  CA_summary_lines(msgs, i + 1, lines, current_user_msg, r2)
             ELSE CA_summary_lines(msgs, i + 1, lines, current_user_msg,
                                   current_assistant_response)

\* A faulty variant of _generate_conversation_summary: the user message that
\* has no reply yet is listed too.
CA_generate_conversation_summary_with_open(msgs) ==
    LET summary_lines == CA_summary_lines(msgs, 2, <<>>, None, None)
                         \o <<<<W("User: ")>> \o msgs[Len(msgs)].content>>
    IN  <<W("\n=== Conversation Summary ===\n")>> \o Join(summary_lines, <<W("\n")>>)
        \o <<W("\n=== End Summary ===\n")>>

\* InteractiveChatApp._generate_conversation_summary, over self.messages = msgs
CA_generate_conversation_summary(msgs) ==
    LET summary_lines == CA_summary_lines(msgs, 2, <<>>, None, None) IN
    IF summary_lines # <<>>
    THEN <<W("\n=== Conversation Summary ===\n")>> \o Join(summary_lines, <<W("\n")>>)
         \o <<W("\n=== End Summary ===\n")>>
    ELSE None

\* InteractiveChatApp._get_enhanced_system_prompt
CA_get_enhanced_system_prompt(msgs) ==
    LET summary == CA_generate_conversation_summary(msgs) IN
    IF summary # None
    THEN system_prompt \o <<W("\n\n")>> \o summary
         \o <<W("\n\nPlease continue the conversation naturally from where you left off.")>>
    ELSE system_prompt

-----------------------------------------------------------------------------
(* The state *)

VARIABLES
    app,                    \* the entry point that runs: its file name
    messages,               \* self.messages, the stored history
    messages_with_summary,  \* chat_app: the working list of process_message
    pc,                     \* where process_message stands: "idle" (no turn),
                            \* "completion" (awaiting the POST of chat_completion),
                            \* "tool" (awaiting mcp_session.call_tool)
    iteration,              \* locals of process_message
    final_response,
    finish_reason,
    tool_calls,             \* the list the for loop walks
    tc_index,               \* the position of the for loop in it
    outcome,                \* how the last turn ended, and what it returned
    posts,                  \* completion requests POSTed in this turn
    last_request,           \* the messages of the last request POSTed
    executed,               \* the calls handed to call_tool in this turn
    response,               \* choices[0] of the last response of this turn
    socket,                 \* speech events sent and not yet read by the listener
    processing_speech,      \* self.processing_speech
    is_speaking,            \* self.is_speaking
    trigger,                \* the speech_stopped event whose handler runs the turn
    speech_queue,           \* conversation_app.py: self.speech_queue
    action_queue,           \* self.action_queue
    current_quote,          \* the state of the streaming parser
    current_action,
    in_quote,
    in_action,
    star_count,             \* self._star_count
    full_response,          \* process_message: the fragments streamed so far
    commands,               \* server.py: the argument of the last call of operate_robot
    command_idx,            \* locals of operate_robot: idx, the position of its loop,
    results,
    failed_count

vars == <<app, messages, messages_with_summary, pc, iteration, final_response,
          finish_reason, tool_calls, tc_index, outcome, posts, last_request,
          executed, response, socket, processing_speech, is_speaking, trigger,
          speech_queue, action_queue, current_quote, current_action, in_quote,
          in_action, star_count, full_response, commands, command_idx, results,
          failed_count>>

speech_vars == <<socket, processing_speech, is_speaking, trigger>>

parser_vars == <<speech_queue, action_queue, current_quote, current_action, in_quote,
                 in_action, star_count, full_response>>

server_vars == <<commands, command_idx, results, failed_count>>

\* server.py: no call of operate_robot has been made
NoOperation ==
    /\ commands = JNull
    /\ command_idx = 0
    /\ results = <<>>
    /\ failed_count = 0

\* ConversationApp.__init__ of conversation_app.py: empty queues and the
\* parser outside a quote and an action (the other entry points have no parser)
ParserConstructed ==
    /\ speech_queue = <<>>
    /\ action_queue = <<>>
    /\ current_quote = <<>>
    /\ current_action = <<>>
    /\ in_quote = FALSE
    /\ in_action = FALSE
    /\ star_count = 0
    /\ full_response = <<>>

NoEvent == [type |-> "none", overlapping |-> FALSE]

NoOutcome == [kind |-> "none", value |-> None]

NoResponse == [message |-> [role |-> "none"], finish_reason |-> ""]

Returned(value) == [kind |-> "returned", value |-> value]

\* The turn is left by an exception of type exc
Raised(exc) == [kind |-> "raised", value |-> Word(exc)]

\* What a failed completion request raises: httpx.HTTPError (a timeout, a
\* transport error, an error status) or, for a malformed envelope, KeyError
CompletionErrors == {"httpx.HTTPError", "KeyError"}

CompletionFailure(out) == \E exc \in CompletionErrors : out = Raised(exc)

\* The assignment of the variables of a turn
Set(msgs, mws, pcv, it, fin, fr, calls, idx, out, p, req, ex) ==
    /\ messages' = msgs
    /\ messages_with_summary' = mws
    /\ pc' = pcv
    /\ iteration' = it
    /\ final_response' = fin
    /\ finish_reason' = fr
    /\ tool_calls' = calls
    /\ tc_index' = idx
    /\ outcome' = out
    /\ posts' = p
    /\ last_request' = req
    /\ executed' = ex
    /\ app' = app
    /\ UNCHANGED parser_vars
    /\ UNCHANGED server_vars

\* process_message is left (a return, or an exception that propagates): its
\* locals are gone.
EndTurn(msgs, out) ==
    Set(msgs, <<>>, "idle", 0, None, "", <<>>, 0, out, posts, last_request, executed)

\* The arguments of a tool call as the loops decode them: a str is parsed
\* (json.JSONDecodeError gives {}), a dict is taken as it is, anything else is {}.
DecodeArguments(arguments_str) ==
    IF IsStr(arguments_str)
    THEN LET r == JsonLoads(arguments_str.v) IN IF r.ok THEN r.val ELSE JDict(EmptyMap)
    ELSE IF IsDict(arguments_str) THEN arguments_str
    ELSE JDict(EmptyMap)

\* execute_tool_via_mcp returns {"error": ...} when call_tool raises
ToolErrorResult(tool_name, e) ==
    JDict(Word("error") :> JStr(<<W("Error executing tool ")>> \o tool_name \o <<W(": ")>> \o e))

-----------------------------------------------------------------------------
(* chat_app.py: InteractiveChatApp.process_message and run *)

\* chat_completion: the messages are sanitized and POSTed
CA_chat_completion(msgs, mws, it, fin, p, ex) ==
    Set(msgs, mws, "completion", it, fin, "", <<>>, 0, NoOutcome, p + 1,
        CA_prepare_messages_for_api(mws), ex)

\* while iteration < max_iterations: ... ; return final_response or "(No response generated)"
CA_while(msgs, mws, it, fin) ==
    IF it < MaxIterations
    THEN CA_chat_completion(msgs, mws, it + 1, fin, posts, executed)
    ELSE EndTurn(msgs, Returned(IF fin # None THEN fin ELSE Word("(No response generated)")))

\* for tool_call in tool_calls, at position idx: the arguments are decoded and
\* cleaned (arguments.items() raises AttributeError unless they are a dict) and
\* call_tool is awaited; after the last call the loop continues.
CA_for(msgs, mws, it, fin, fr, calls, idx) ==
    IF idx > Len(calls) THEN CA_while(msgs, mws, it, fin)
    ELSE LET function == calls[idx].function
             arguments == DecodeArguments(function.arguments)
         IN  IF ~IsDict(arguments) THEN EndTurn(msgs, Raised("AttributeError"))
             ELSE Set(msgs, mws, "tool", it, fin, fr, calls, idx, NoOutcome, posts,
                      last_request,
                      Append(executed, [id |-> calls[idx].id, name |-> function.name,
                                        arguments |-> CA_clean_tool_arguments(arguments)]))

\* The synthetic tool call made of a tool call parsed from content
SyntheticToolCall(it, parsed_tool_call) ==
    [id |-> <<"call_", it>>, type |-> "function",
     function |-> [name |-> parsed_tool_call.name,
                   arguments |-> JStr(JsonDumps(parsed_tool_call.arguments))]]

\* A faulty variant of the start of a turn: the system prompt with the summary
\* is written into the stored history.
CA_UserInput_StoresSummary(user_message) ==
    /\ app = "chat_app.py"
    /\ response' = NoResponse
    /\ pc = "idle"
    /\ Len(messages) + 2 <= MaxMessages
    /\ LET msgs == Append(messages, UserMessage(user_message))
           mws == <<SystemMessage(CA_get_enhanced_system_prompt(msgs))>> \o Tail(msgs)
       IN  CA_chat_completion(mws, mws, 1, None, 0, <<>>)
    /\ UNCHANGED speech_vars

\* run(): a line of input that is not a command starts a turn.
\* process_message up to its first await.
CA_UserInput(user_message) ==
    /\ app = "chat_app.py"
    /\ response' = NoResponse
    /\ pc = "idle"
    /\ Len(messages) + 2 <= MaxMessages
    /\ LET msgs == Append(messages, UserMessage(user_message))
           mws == <<SystemMessage(CA_get_enhanced_system_prompt(msgs))>> \o Tail(msgs)
       IN  CA_chat_completion(msgs, mws, 1, None, 0, <<>>)
    /\ UNCHANGED speech_vars

\* A faulty variant of the failure of the POST: the request is sent again.
CA_CompletionError_Resend ==
    /\ app = "chat_app.py"
    /\ pc = "completion"
    /\ posts < MaxIterations
    /\ posts' = posts + 1
    /\ UNCHANGED <<app, server_vars, messages, messages_with_summary, pc, iteration, final_response,
                   finish_reason, tool_calls, tc_index, outcome, last_request, executed,
                   response, parser_vars, speech_vars>>

\* A faulty variant of the failure of the POST: the last stored message is
\* taken back.
CA_CompletionError_Rollback ==
    /\ app = "chat_app.py"
    /\ response' = response
    /\ pc = "completion"
    /\ \E exc \in CompletionErrors :
           EndTurn(SubSeq(messages, 1, Len(messages) - 1), Raised(exc))
    /\ UNCHANGED speech_vars

\* The POST fails (a timeout, a transport error, an HTTP error status) or the
\* envelope lacks choices[0], message or finish_reason: the exception leaves
\* process_message and run() reports it.
CA_CompletionError ==
    /\ app = "chat_app.py"
    /\ response' = response
    /\ pc = "completion"
    /\ \E exc \in CompletionErrors : EndTurn(messages, Raised(exc))
    /\ UNCHANGED speech_vars

\* The response arrives: process_message from line 501 to its next await or
\* its return.
CA_CompletionResponse(resp) ==
    /\ app = "chat_app.py"
    /\ response' = resp
    /\ pc = "completion"
    /\ Len(messages) + 1 + Len(Get(resp.message, "tool_calls", <<>>)) <= MaxMessages
    /\ LET fr == resp.finish_reason
           am1 == IF "tool_calls" \in DOMAIN resp.message /\ resp.message.tool_calls = <<>>
                  THEN Del(resp.message, "tool_calls") ELSE resp.message
           msgs1 == Append(messages, am1)
           mws1 == Append(messages_with_summary, am1)
           content_str == Get(am1, "content", None)
           fin1 == IF content_str # None THEN content_str ELSE final_response
           parsed_tool_call == IF content_str # None /\ ~HasToolCalls(am1)
                               THEN CA_parse_tool_call_from_content(content_str)
                               ELSE NoToolCall
           \* the assistant message is one object in both lists: the synthetic
           \* call shows in both
           am2 == MapPut(am1, "tool_calls", <<SyntheticToolCall(iteration, parsed_tool_call)>>)
           truncated(fin) == IF fin # None THEN fin
                             ELSE Word("(Response truncated due to length limit)")
       IN  IF parsed_tool_call.raised # ""
           THEN EndTurn(msgs1, Raised(parsed_tool_call.raised))
           ELSE IF HasToolCalls(am1)
           THEN IF fr = "length" THEN EndTurn(msgs1, Returned(truncated(fin1)))
                ELSE CA_for(msgs1, mws1, iteration, fin1, fr, am1.tool_calls, 1)
           ELSE IF parsed_tool_call.found
           THEN IF fr = "length"
                THEN EndTurn(SetLast(msgs1, am2), Returned(truncated(None)))
                ELSE CA_for(SetLast(msgs1, am2), SetLast(mws1, am2), iteration, None, fr,
                            am2.tool_calls, 1)
           ELSE IF fin1 # None
           THEN \* stop: break; length: break; any other finish reason: the final break
                EndTurn(msgs1, Returned(fin1))
           ELSE IF fr = "length"
           THEN EndTurn(msgs1, Returned(truncated(None)))
           ELSE EndTurn(msgs1, Returned(Word("(No response generated)")))
    /\ UNCHANGED speech_vars

\* A faulty variant of the return of call_tool: the tool message is appended
\* to the stored history alone.
CA_ToolReturn_history_only(tool_result) ==
    /\ app = "chat_app.py"
    /\ response' = response
    /\ pc = "tool"
    /\ LET tool_call == tool_calls[tc_index]
           tool_result_msg == ToolMessage(tool_call.id, tool_call.function.name,
                                          JsonDumps(tool_result))
       IN  CA_for(Append(messages, tool_result_msg), messages_with_summary,
                  iteration, final_response, finish_reason, tool_calls, tc_index + 1)
    /\ UNCHANGED speech_vars

\* call_tool returns: the tool message is appended to both lists and the for
\* loop goes on.
CA_ToolReturn(tool_result) ==
    /\ app = "chat_app.py"
    /\ response' = response
    /\ pc = "tool"
    /\ LET tool_call == tool_calls[tc_index]
           tool_result_msg == ToolMessage(tool_call.id, tool_call.function.name,
                                          JsonDumps(tool_result))
       IN  CA_for(Append(messages, tool_result_msg),
                  Append(messages_with_summary, tool_result_msg),
                  iteration, final_response, finish_reason, tool_calls, tc_index + 1)
    /\ UNCHANGED speech_vars

\* call_tool raises: execute_tool_via_mcp catches it and returns {"error": ...}
CA_ToolRaise(e) ==
    /\ app = "chat_app.py"
    /\ response' = response
    /\ pc = "tool"
    /\ LET tool_call == tool_calls[tc_index]
           tool_result_msg ==
               ToolMessage(tool_call.id, tool_call.function.name,
                           JsonDumps(ToolErrorResult(tool_call.function.name, e)))
       IN  CA_for(Append(messages, tool_result_msg),
                  Append(messages_with_summary, tool_result_msg),
                  iteration, final_response, finish_reason, tool_calls, tc_index + 1)
    /\ UNCHANGED speech_vars

\* run(): the command /clear; clear_history
CA_Clear ==
    /\ app = "chat_app.py"
    /\ response' = NoResponse
    /\ pc = "idle"
    /\ Set(<<SystemMessage(system_prompt)>>, <<>>, "idle", 0, None, "", <<>>, 0, NoOutcome,
           0, <<>>, <<>>)
    /\ UNCHANGED speech_vars

-----------------------------------------------------------------------------
(* conversation_app_mcp.py: the pure helpers of ConversationApp *)

RECURSIVE CM_fix_double_encoded_params(_)

\* ConversationApp._fix_double_encoded_params
CM_fix_double_encoded_params(params) ==
    IF ~IsDict(params) THEN params
    ELSE JDict([key \in DOMAIN params.v |->
                  LET value == params.v[key] IN
                  IF IsStr(value)
                  THEN LET stripped == Strip(value.v) IN
                       IF LooksLikeJson(stripped)
                       THEN LET r == JsonLoads(stripped) IN
                            IF r.ok
                            THEN IF IsDict(r.val) THEN CM_fix_double_encoded_params(r.val)
                                 ELSE r.val
                            ELSE value
                       ELSE value
                  ELSE IF IsDict(value) THEN CM_fix_double_encoded_params(value)
                  ELSE value])

\* The checks made on the parsed value: a dict with a "name" that is a known tool.
CM_tool_call_of(parsed) ==
    IF IsDict(parsed) /\ Word("name") \in DOMAIN parsed.v
    THEN LET func_name == parsed.v[Word("name")]
             parameters == IF Word("parameters") \in DOMAIN parsed.v
                           THEN parsed.v[Word("parameters")]
                           ELSE JDict(EmptyMap)
         IN  IF IsStr(func_name) /\ func_name.v \in mcp_tools
             THEN [found |-> TRUE, name |-> func_name.v,
                   arguments |-> CM_fix_double_encoded_params(parameters), raised |-> ""]
             ELSE NoToolCall
    ELSE NoToolCall

\* A faulty variant of _parse_tool_call_from_content: the except clause of the
\* retry is missing, and its json.JSONDecodeError leaves the function.
CM_parse_tool_call_from_content_uncaught(content) ==
    IF content = <<>> \/ Strip(content) = <<>> THEN NoToolCall
    ELSE LET start_index == Find(content, P("{"))
             end_index == RFind(content, P("}"))
         IN  IF start_index = 0 \/ end_index = 0 \/ end_index < start_index
             THEN NoToolCall
             ELSE LET json_str == SubSeq(content, start_index, end_index)
                      first == JsonLoads(json_str)
                      second == JsonLoads(json_str \o <<P("}")>>)
                  IN  IF first.ok THEN CM_tool_call_of(first.val)
                      ELSE IF second.ok THEN CM_tool_call_of(second.val)
                      ELSE ParseRaised("json.JSONDecodeError")

\* ConversationApp._parse_tool_call_from_content: json.JSONDecodeError of the
\* first json.loads leads to the retry with '}' appended, that of the retry to
\* its own except clause and to return None
CM_parse_tool_call_from_content(content) ==
    IF content = <<>> \/ Strip(content) = <<>> THEN NoToolCall
    ELSE LET start_index == Find(content, P("{"))
             end_index == RFind(content, P("}"))
         IN  IF start_index = 0 \/ end_index = 0 \/ end_index < start_index
             THEN NoToolCall
             ELSE LET json_str == SubSeq(content, start_index, end_index)
                      first == JsonLoads(json_str)
                      second == JsonLoads(json_str \o <<P("}")>>)
                  IN  IF first.ok THEN CM_tool_call_of(first.val)
                      ELSE IF second.ok THEN CM_tool_call_of(second.val)
                      ELSE NoToolCall

\* ConversationApp._clean_tool_arguments; arguments is a dict (the caller
\* raises AttributeError on arguments.items() otherwise)
CM_clean_tool_arguments(arguments) ==
    LET kept == {key \in DOMAIN arguments.v :
                   arguments.v[key] \notin {JStr(Word("null")), JStr(Word("None"))}}
    IN  JDict([key \in kept |->
                 LET value == arguments.v[key] IN
                 IF value = JStr(Word("true")) THEN JBool(TRUE)
                 ELSE IF value = JStr(Word("false")) THEN JBool(FALSE)
                 ELSE value])

-----------------------------------------------------------------------------
(* conversation_app_mcp.py: the listener, on_speech_stopped and             *)
(* ConversationApp.process_message                                          *)

\* The most events that wait in the socket.
MaxSocket == 1

EventTypes == {"speech_started", "speech_stopped"}

\* A faulty variant of the end of a turn: the flag is cleared after the call
\* of process_speech_event instead of in a finally clause.
CM_EndTurn_no_finally(msgs, out) ==
    /\ EndTurn(msgs, out)
    /\ processing_speech' = (out.kind = "raised")
    /\ trigger' = NoEvent

\* The turn ends: on_speech_stopped's finally clears the flag, handle_event
\* returns and the listener reads on.
CM_EndTurn(msgs, out) ==
    /\ EndTurn(msgs, out)
    /\ processing_speech' = FALSE
    /\ trigger' = NoEvent

\* chat_completion: self.messages is POSTed as it is
CM_chat_completion(msgs, it, fin, p, ex) ==
    Set(msgs, <<>>, "completion", it, fin, "", <<>>, 0, NoOutcome, p + 1, msgs, ex)

\* while iteration < max_iterations: ... ; return final_response or "(No response generated)"
CM_while(msgs, it, fin) ==
    IF it < MaxIterations
    THEN /\ CM_chat_completion(msgs, it + 1, fin, posts, executed)
         /\ UNCHANGED <<processing_speech, trigger>>
    ELSE CM_EndTurn(msgs, Returned(IF fin # None THEN fin
                                   ELSE Word("(No response generated)")))

\* for tool_call in assistant_message["tool_calls"], at position idx
CM_for(msgs, it, fin, fr, calls, idx) ==
    IF idx > Len(calls) THEN CM_while(msgs, it, fin)
    ELSE LET function == calls[idx].function
             tool_args == DecodeArguments(function.arguments)
         IN  IF ~IsDict(tool_args) THEN CM_EndTurn(msgs, Raised("AttributeError"))
             ELSE /\ Set(msgs, <<>>, "tool", it, fin, fr, calls, idx, NoOutcome, posts,
                         last_request,
                         Append(executed, [id |-> calls[idx].id, name |-> function.name,
                                           arguments |-> CM_clean_tool_arguments(tool_args)]))
                  /\ UNCHANGED <<processing_speech, trigger>>

\* The hearing service sends an event; it waits in the socket.  overlapping
\* records whether a turn was in progress when it arrived.
CM_EmitEvent(type) ==
    /\ app = "conversation_app_mcp.py"
    /\ Len(socket) < MaxSocket
    /\ socket' = Append(socket, [type |-> type, overlapping |-> pc # "idle"])
    /\ UNCHANGED <<app, server_vars, messages, messages_with_summary, pc, iteration, final_response,
                   finish_reason, tool_calls, tc_index, outcome, posts, last_request,
                   executed, response, parser_vars, processing_speech, is_speaking, trigger>>

\* The user stops speaking while no turn runs and no event waits.
CM_Speech ==
    /\ pc = "idle"
    /\ socket = <<>>
    /\ CM_EmitEvent("speech_stopped")

\* A faulty variant of the listener: it reads on while a handler runs.
CM_listener_reads_on == TRUE

\* listen_to_events awaits handle_event, which awaits the turn: the listener
\* is at recv only between handlers.
CM_listener_at_recv == pc = "idle"

\* (conversation_app.py has the same listen_to_events, lines 156-189, and the
\* same on_speech_stopped, lines 250-278.)
\* The listener reads an event and handle_event runs up to its first await:
\* on_speech_started; or on_speech_stopped, which skips the event while
\* processing_speech is set and otherwise sets it and enters process_message.
CM_HandleEvent ==
    /\ app = "conversation_app_mcp.py"
    /\ CM_listener_at_recv
    /\ socket # <<>>
    /\ Head(socket).type = "speech_stopped" /\ ~processing_speech
           => Len(messages) + 2 <= MaxMessages
    /\ socket' = Tail(socket)
    /\ LET event == Head(socket) IN
       IF event.type = "speech_started"
       THEN /\ is_speaking' = TRUE
            /\ UNCHANGED <<app, server_vars, messages, messages_with_summary, pc, iteration,
                           final_response, finish_reason, tool_calls, tc_index, outcome,
                           posts, last_request, executed, response, parser_vars, processing_speech,
                           trigger>>
       ELSE /\ is_speaking' = FALSE
            /\ IF processing_speech
               THEN UNCHANGED <<app, server_vars, messages, messages_with_summary, pc, iteration,
                                final_response, finish_reason, tool_calls, tc_index,
                                outcome, posts, last_request, executed, response, parser_vars,
                                processing_speech, trigger>>
               ELSE /\ processing_speech' = TRUE
                    /\ response' = NoResponse
                    /\ trigger' = event
                    /\ CM_chat_completion(
                           Append(messages,
                                  UserMessage(Word("Hello, I just said something to you."))),
                           1, None, 0, <<>>)

\* The POST fails or the envelope is malformed: the exception leaves
\* process_message and on_speech_stopped logs it.
CM_CompletionError ==
    /\ app = "conversation_app_mcp.py"
    /\ response' = response
    /\ pc = "completion"
    /\ \E exc \in CompletionErrors : CM_EndTurn(messages, Raised(exc))
    /\ UNCHANGED <<socket, is_speaking>>

\* The response arrives: process_message from line 587 to its next await or
\* its return.
CM_CompletionResponse(resp) ==
    /\ app = "conversation_app_mcp.py"
    /\ response' = resp
    /\ pc = "completion"
    /\ Len(messages) + 1 + Len(Get(resp.message, "tool_calls", <<>>)) <= MaxMessages
    /\ LET fr == resp.finish_reason
           am1 == IF "tool_calls" \in DOMAIN resp.message /\ resp.message.tool_calls = <<>>
                  THEN Del(resp.message, "tool_calls") ELSE resp.message
           msgs1 == Append(messages, am1)
           content_str == Get(am1, "content", None)
           fin1 == IF content_str # None THEN content_str ELSE final_response
           parsed_tool_call == IF content_str # None /\ ~HasToolCalls(am1)
                               THEN CM_parse_tool_call_from_content(content_str)
                               ELSE NoToolCall
           am2 == MapPut(am1, "tool_calls", <<SyntheticToolCall(iteration, parsed_tool_call)>>)
       IN  IF parsed_tool_call.raised # ""
           THEN CM_EndTurn(msgs1, Raised(parsed_tool_call.raised))
           ELSE IF HasToolCalls(am1)
           THEN CM_for(msgs1, iteration, fin1, fr, am1.tool_calls, 1)
           ELSE IF parsed_tool_call.found
           THEN CM_for(SetLast(msgs1, am2), iteration, None, fr, am2.tool_calls, 1)
           ELSE IF fin1 # None /\ fr \in {"stop", "length"}
           THEN CM_EndTurn(msgs1, Returned(fin1))
           ELSE IF fin1 = None /\ fr = "stop"
           THEN CM_EndTurn(msgs1, Returned(Word("(No response)")))
           ELSE IF fr = "length"
           THEN CM_EndTurn(msgs1, Returned(Word("(Response truncated due to length limit)")))
           ELSE CM_while(msgs1, iteration, fin1)
    /\ UNCHANGED <<socket, is_speaking>>

\* str(result) of the dict execute_tool_via_mcp returns for an exception
PyStrOfError(tool_name, e) ==
    <<W("{'error': 'Error executing tool ")>> \o tool_name \o <<W(": ")>> \o e \o <<W("'}")>>

\* call_tool returns: result.content[0].text becomes the tool message, and
\* IndexError leaves process_message when the content list is empty.
CM_ToolReturn(tool_result) ==
    /\ app = "conversation_app_mcp.py"
    /\ response' = response
    /\ pc = "tool"
    /\ LET tool_call == tool_calls[tc_index]
           content == tool_result.v[Word("content")].v
       IN  IF content = <<>> THEN CM_EndTurn(messages, Raised("IndexError"))
           ELSE CM_for(Append(messages,
                              ToolMessage(tool_call.id, tool_call.function.name,
                                          JsonDumps(content[1].v[Word("text")]))),
                       iteration, final_response, finish_reason, tool_calls, tc_index + 1)
    /\ UNCHANGED <<socket, is_speaking>>

\* call_tool raises: execute_tool_via_mcp catches it and returns {"error": ...}
CM_ToolRaise(e) ==
    /\ app = "conversation_app_mcp.py"
    /\ response' = response
    /\ pc = "tool"
    /\ LET tool_call == tool_calls[tc_index] IN
       CM_for(Append(messages,
                     ToolMessage(tool_call.id, tool_call.function.name,
                                 JsonDumps(JStr(PyStrOfError(tool_call.function.name, e))))),
              iteration, final_response, finish_reason, tool_calls, tc_index + 1)
    /\ UNCHANGED <<socket, is_speaking>>

-----------------------------------------------------------------------------
(* chat_completions_mcp.py: MCPChatClient.run_conversation, called once by  *)
(* main                                                                     *)

\* run_conversation is left: main cleans up and the program ends.
CC_End(msgs, out) ==
    /\ Set(msgs, <<>>, "done", 0, None, "", <<>>, 0, out, posts, last_request, executed)
    /\ UNCHANGED speech_vars

\* chat_completion: self.messages is POSTed as it is
CC_chat_completion(msgs, it, p, ex) ==
    /\ Set(msgs, <<>>, "completion", it, None, "", <<>>, 0, NoOutcome, p + 1, msgs, ex)
    /\ UNCHANGED speech_vars

\* while iteration < max_iterations
CC_while(msgs, it) ==
    IF it < MaxIterations THEN CC_chat_completion(msgs, it + 1, posts, executed)
    ELSE CC_End(msgs, Returned(None))

\* for tool_call in tool_calls, at position idx: the arguments are decoded
\* (a str is parsed, anything else is passed on) and call_tool is awaited
CC_for(msgs, it, fr, calls, idx) ==
    IF idx > Len(calls) THEN CC_while(msgs, it)
    ELSE LET function == calls[idx].function
             arguments == IF IsStr(function.arguments)
                          THEN DecodeArguments(function.arguments)
                          ELSE function.arguments
         IN  /\ Set(msgs, <<>>, "tool", it, None, fr, calls, idx, NoOutcome, posts,
                    last_request,
                    Append(executed, [id |-> calls[idx].id, name |-> function.name,
                                      arguments |-> arguments]))
             /\ UNCHANGED speech_vars

\* main calls run_conversation: the history is set to the user message
CC_RunConversation(user_message) ==
    /\ app = "chat_completions_mcp.py"
    /\ response' = NoResponse
    /\ pc = "idle"
    /\ CC_chat_completion(<<UserMessage(user_message)>>, 1, 0, <<>>)

\* The POST fails or the envelope is malformed: the exception leaves
\* run_conversation and main reports it.
CC_CompletionError ==
    /\ app = "chat_completions_mcp.py"
    /\ response' = response
    /\ pc = "completion"
    /\ \E exc \in CompletionErrors : CC_End(messages, Raised(exc))

\* The response arrives: run_conversation from line 250 to its next await or
\* its end.
CC_CompletionResponse(resp) ==
    /\ app = "chat_completions_mcp.py"
    /\ response' = resp
    /\ pc = "completion"
    /\ Len(messages) + 1 + Len(Get(resp.message, "tool_calls", <<>>)) <= MaxMessages
    /\ LET fr == resp.finish_reason
           msgs1 == Append(messages, resp.message)
       IN  IF fr = "stop" \/ fr = "length" THEN CC_End(msgs1, Returned(None))
           ELSE IF fr = "tool_calls" /\ "tool_calls" \in DOMAIN resp.message
           THEN CC_for(msgs1, iteration, fr, resp.message.tool_calls, 1)
           ELSE CC_End(msgs1, Returned(None))

\* call_tool returns: the tool message is appended and the for loop goes on
CC_ToolReturn(tool_result) ==
    /\ app = "chat_completions_mcp.py"
    /\ response' = response
    /\ pc = "tool"
    /\ LET tool_call == tool_calls[tc_index] IN
       CC_for(Append(messages, ToolMessage(tool_call.id, tool_call.function.name,
                                           JsonDumps(tool_result))),
              iteration, finish_reason, tool_calls, tc_index + 1)

\* call_tool raises: execute_tool_via_mcp catches it and returns {"error": ...}
CC_ToolRaise(e) ==
    /\ app = "chat_completions_mcp.py"
    /\ response' = response
    /\ pc = "tool"
    /\ LET tool_call == tool_calls[tc_index] IN
       CC_for(Append(messages,
                     ToolMessage(tool_call.id, tool_call.function.name,
                                 JsonDumps(ToolErrorResult(tool_call.function.name, e)))),
              iteration, finish_reason, tool_calls, tc_index + 1)

-----------------------------------------------------------------------------
(* chat_app_openai.py: InteractiveChatApp, the conversation summary,        *)
(* process_message and run                                                   *)

\* The two lines of one exchange
CO_ExchangeLines(user_msg, resp_text) ==
    <<<<W("User: ")>> \o user_msg, <<W("Robot: ")>> \o resp_text>>

RECURSIVE CO_summary_lines(_, _, _, _, _)

\* The loop of _generate_conversation_summary from message i on, and the
\* lines it has produced when the loop ends
CO_summary_lines(msgs, i, lines, current_user_msg, current_assistant_response) ==
    IF i > Len(msgs)
    THEN IF current_user_msg # None /\ current_assistant_response # None
         THEN lines \o CO_ExchangeLines(current_user_msg, current_assistant_response)
         ELSE lines
    ELSE LET msg == msgs[i]
             role == Get(msg, "role", "")
             content == Get(msg, "content", None)
         IN  IF role = "user"
             THEN CO_summary_lines(msgs, i + 1,
                      IF current_user_msg # None /\ current_assistant_response # None
                      THEN lines \o CO_ExchangeLines(current_user_msg,
                                                     current_assistant_response)
                                 \o <<None>>
                      ELSE lines,
                      content, None)
             ELSE IF role = "assistant"
             THEN LET r1 == IF content # None
                            THEN IF current_assistant_response # None
                                 THEN current_assistant_response \o <<W(" ")>> \o content
                                 ELSE content
                            ELSE current_assistant_response
                      tool_note == <<W("[Used tools: ")>>
                                   \o Join(ToolNames(Get(msg, "tool_calls", <<>>)), <<W(", ")>>)
                                   \o <<W("]")>>
                      r2 == IF HasToolCalls(msg)
                            THEN IF r1 # None THEN r1 \o <<W(" ")>> \o tool_note
                                 ELSE tool_note
                            ELSE r1
                  IN  CO_summary_lines(msgs, i + 1, lines, current_user_msg, r2)
             ELSE CO_summary_lines(msgs, i + 1, lines, current_user_msg,
                                   current_assistant_response)

\* InteractiveChatApp._generate_conversation_summary, over self.messages = msgs
CO_generate_conversation_summary(msgs) ==
    LET summary_lines == CO_summary_lines(msgs, 2, <<>>, None, None) IN
    IF summary_lines # <<>>
    THEN <<W("\n=== Conversation Summary ===\n")>> \o Join(summary_lines, <<W("\n")>>)
         \o <<W("\n=== End Summary ===\n")>>
    ELSE None

\* InteractiveChatApp._get_enhanced_system_prompt
CO_get_enhanced_system_prompt(msgs) ==
    LET summary == CO_generate_conversation_summary(msgs) IN
    IF summary # None
    THEN system_prompt \o <<W("\n\n")>> \o summary
         \o <<W("\n\nPlease continue the conversation naturally from where you left off.")>>
    ELSE system_prompt

\* chat_completion: the list is POSTed as it is
CO_chat_completion(msgs, mws, it, fin, p, ex) ==
    Set(msgs, mws, "completion", it, fin, "", <<>>, 0, NoOutcome, p + 1, mws, ex)

\* while iteration < max_iterations: ... ; return final_response or "(No response generated)"
CO_while(msgs, mws, it, fin) ==
    IF it < MaxIterations
    THEN CO_chat_completion(msgs, mws, it + 1, fin, posts, executed)
    ELSE EndTurn(msgs, Returned(IF fin # None THEN fin ELSE Word("(No response generated)")))

\* for tool_call in tool_calls, at position idx: the arguments are decoded and
\* execute_tool is awaited; after the last call the loop continues.
CO_for(msgs, mws, it, fin, fr, calls, idx) ==
    IF idx > Len(calls) THEN CO_while(msgs, mws, it, fin)
    ELSE LET function == calls[idx].function IN
         Set(msgs, mws, "tool", it, fin, fr, calls, idx, NoOutcome, posts, last_request,
             Append(executed, [id |-> calls[idx].id, name |-> function.name,
                               arguments |-> DecodeArguments(function.arguments)]))

\* run(): a line of input that is not a command starts a turn.
\* process_message up to its first await.
CO_UserInput(user_message) ==
    /\ app = "chat_app_openai.py"
    /\ response' = NoResponse
    /\ pc = "idle"
    /\ Len(messages) + 2 <= MaxMessages
    /\ LET msgs == Append(messages, UserMessage(user_message))
           mws == <<SystemMessage(CO_get_enhanced_system_prompt(msgs))>> \o Tail(msgs)
       IN  CO_chat_completion(msgs, mws, 1, None, 0, <<>>)
    /\ UNCHANGED speech_vars

\* The POST fails or the envelope lacks choices[0], message or finish_reason:
\* the exception leaves process_message and run() reports it.
CO_CompletionError ==
    /\ app = "chat_app_openai.py"
    /\ response' = response
    /\ pc = "completion"
    /\ \E exc \in CompletionErrors : EndTurn(messages, Raised(exc))
    /\ UNCHANGED speech_vars

\* The response arrives: process_message from line 257 to its next await or
\* its return.
CO_CompletionResponse(resp) ==
    /\ app = "chat_app_openai.py"
    /\ response' = resp
    /\ pc = "completion"
    /\ Len(messages) + 1 + Len(Get(resp.message, "tool_calls", <<>>)) <= MaxMessages
    /\ LET fr == resp.finish_reason
           assistant_message == resp.message
           msgs1 == Append(messages, assistant_message)
           mws1 == Append(messages_with_summary, assistant_message)
           content_str == Get(assistant_message, "content", None)
           fin1 == IF content_str # None THEN content_str ELSE final_response
       IN  IF HasToolCalls(assistant_message)
           THEN CO_for(msgs1, mws1, iteration, fin1, fr, assistant_message.tool_calls, 1)
           ELSE IF fr = "length" /\ fin1 = None
           THEN EndTurn(msgs1, Returned(Word("(Response truncated due to length limit)")))
           ELSE \* stop: break; length: break; any other finish reason: the final break
                EndTurn(msgs1, Returned(IF fin1 # None THEN fin1
                                        ELSE Word("(No response generated)")))
    /\ UNCHANGED speech_vars

\* execute_tool returns the JSON of the robot server: the tool message is
\* appended to both lists and the for loop goes on.
CO_ToolReturn(tool_result) ==
    /\ app = "chat_app_openai.py"
    /\ response' = response
    /\ pc = "tool"
    /\ LET tool_call == tool_calls[tc_index]
           tool_result_msg == ToolMessage(tool_call.id, tool_call.function.name,
                                          JsonDumps(tool_result))
       IN  CO_for(Append(messages, tool_result_msg),
                  Append(messages_with_summary, tool_result_msg),
                  iteration, final_response, finish_reason, tool_calls, tc_index + 1)
    /\ UNCHANGED speech_vars

\* The POST of execute_tool raises: execute_tool catches it and returns
\* {"error": ...}
CO_ToolRaise(e) ==
    /\ app = "chat_app_openai.py"
    /\ response' = response
    /\ pc = "tool"
    /\ LET tool_call == tool_calls[tc_index]
           tool_result_msg ==
               ToolMessage(tool_call.id, tool_call.function.name,
                           JsonDumps(ToolErrorResult(tool_call.function.name, e)))
       IN  CO_for(Append(messages, tool_result_msg),
                  Append(messages_with_summary, tool_result_msg),
                  iteration, final_response, finish_reason, tool_calls, tc_index + 1)
    /\ UNCHANGED speech_vars

\* run(): the command /clear; clear_history
CO_Clear ==
    /\ app = "chat_app_openai.py"
    /\ response' = NoResponse
    /\ pc = "idle"
    /\ Set(<<SystemMessage(system_prompt)>>, <<>>, "idle", 0, None, "", <<>>, 0, NoOutcome,
           0, <<>>, <<>>)
    /\ UNCHANGED speech_vars

-----------------------------------------------------------------------------
(* conversation_app.py: ConversationApp.parse_token and process_message *)

\* The characters of a streamed text: the quote, the star, and a letter
Quote == P("\"")

Star == P("*")

StreamChars == {Quote, Star, W("a")}

\* The most characters the backend streams in a session
MaxStream == 6

\* The most turns of a session
MaxTurns == 2

\* The turns of the session so far: the user messages of the history
Turns(msgs) == Cardinality({ i \in DOMAIN msgs : msgs[i].role = "user" })

\* The parser and the queues, as one record
ParserState ==
    [speech_queue |-> speech_queue, action_queue |-> action_queue,
     current_quote |-> current_quote, current_action |-> current_action,
     in_quote |-> in_quote, in_action |-> in_action, star_count |-> star_count]

\* process_message, "Reset parser state": the queues are kept
ResetParser(st) ==
    [st EXCEPT !.current_quote = <<>>, !.current_action = <<>>, !.in_quote = FALSE,
               !.in_action = FALSE, !.star_count = 0]

\* A faulty variant of parse_token: a star inside a quote is counted.
CS_parse_char_star_in_quote(st, char) ==
    IF char = Quote
    THEN IF st.in_quote
         THEN [st EXCEPT !.speech_queue = IF st.current_quote # <<>>
                                          THEN Append(@, st.current_quote) ELSE @,
                         !.current_quote = <<>>,
                         !.in_quote = FALSE]
         ELSE [st EXCEPT !.in_quote = TRUE]
    ELSE IF st.in_quote
    THEN [st EXCEPT !.current_quote = Append(@, char),
                    !.star_count = IF char = Star THEN @ + 1 ELSE @]
    ELSE IF char = Star
    THEN LET count == st.star_count + 1 IN
         IF st.in_action
         THEN IF count = 2
              THEN [st EXCEPT !.action_queue = IF st.current_action # <<>>
                                               THEN Append(@, st.current_action) ELSE @,
                              !.current_action = <<>>,
                              !.in_action = FALSE,
                              !.star_count = 0]
              ELSE [st EXCEPT !.star_count = count]
         ELSE IF count = 2
              THEN [st EXCEPT !.in_action = TRUE, !.star_count = 0]
              ELSE [st EXCEPT !.star_count = count]
    ELSE [st EXCEPT !.star_count = 0,
                    !.current_action = IF st.in_action THEN Append(@, char) ELSE @]

\* A faulty variant of parse_token: an empty quote is queued as well.
CS_parse_char_queues_empty(st, char) ==
    IF char = Quote
    THEN IF st.in_quote
         THEN [st EXCEPT !.speech_queue = Append(@, st.current_quote),
                         !.current_quote = <<>>,
                         !.in_quote = FALSE]
         ELSE [st EXCEPT !.in_quote = TRUE]
    ELSE IF st.in_quote
    THEN [st EXCEPT !.current_quote = Append(@, char)]
    ELSE IF char = Star
    THEN LET count == st.star_count + 1 IN
         IF st.in_action
         THEN IF count = 2
              THEN [st EXCEPT !.action_queue = IF st.current_action # <<>>
                                               THEN Append(@, st.current_action) ELSE @,
                              !.current_action = <<>>,
                              !.in_action = FALSE,
                              !.star_count = 0]
              ELSE [st EXCEPT !.star_count = count]
         ELSE IF count = 2
              THEN [st EXCEPT !.in_action = TRUE, !.star_count = 0]
              ELSE [st EXCEPT !.star_count = count]
    ELSE [st EXCEPT !.star_count = 0,
                    !.current_action = IF st.in_action THEN Append(@, char) ELSE @]

\* A faulty variant of parse_token: the text of a quote inside an action is
\* appended to the action text as well.
CS_parse_char_quote_in_action(st, char) ==
    IF char = Quote
    THEN IF st.in_quote
         THEN [st EXCEPT !.speech_queue = IF st.current_quote # <<>>
                                          THEN Append(@, st.current_quote) ELSE @,
                         !.current_quote = <<>>,
                         !.in_quote = FALSE]
         ELSE [st EXCEPT !.in_quote = TRUE]
    ELSE IF st.in_quote
    THEN [st EXCEPT !.current_quote = Append(@, char),
                    !.current_action = IF st.in_action THEN Append(@, char) ELSE @]
    ELSE IF char = Star
    THEN LET count == st.star_count + 1 IN
         IF st.in_action
         THEN IF count = 2
              THEN [st EXCEPT !.action_queue = IF st.current_action # <<>>
                                               THEN Append(@, st.current_action) ELSE @,
                              !.current_action = <<>>,
                              !.in_action = FALSE,
                              !.star_count = 0]
              ELSE [st EXCEPT !.star_count = count]
         ELSE IF count = 2
              THEN [st EXCEPT !.in_action = TRUE, !.star_count = 0]
              ELSE [st EXCEPT !.star_count = count]
    ELSE [st EXCEPT !.star_count = 0,
                    !.current_action = IF st.in_action THEN Append(@, char) ELSE @]

\* The body of the loop of parse_token, for one character
CS_parse_char(st, char) ==
    IF char = Quote
    THEN IF st.in_quote
         THEN [st EXCEPT !.speech_queue = IF st.current_quote # <<>>
                                          THEN Append(@, st.current_quote) ELSE @,
                         !.current_quote = <<>>,
                         !.in_quote = FALSE]
         ELSE [st EXCEPT !.in_quote = TRUE]
    ELSE IF st.in_quote
    THEN [st EXCEPT !.current_quote = Append(@, char)]
    ELSE IF char = Star
    THEN LET count == st.star_count + 1 IN
         IF st.in_action
         THEN IF count = 2
              THEN [st EXCEPT !.action_queue = IF st.current_action # <<>>
                                               THEN Append(@, st.current_action) ELSE @,
                              !.current_action = <<>>,
                              !.in_action = FALSE,
                              !.star_count = 0]
              ELSE [st EXCEPT !.star_count = count]
         ELSE IF count = 2
              THEN [st EXCEPT !.in_action = TRUE, !.star_count = 0]
              ELSE [st EXCEPT !.star_count = count]
    ELSE [st EXCEPT !.star_count = 0,
                    !.current_action = IF st.in_action THEN Append(@, char) ELSE @]

\* A faulty variant of parse_token: the star counter starts at 0 in every
\* fragment.
CS_parse_token_forgets_star(st, token) ==
    LET CharsFrom[i \in 1..(Len(token) + 1)] ==
            IF i = 1 THEN [st EXCEPT !.star_count = 0]
            ELSE CS_parse_char(CharsFrom[i - 1], token[i - 1])
    IN  CharsFrom[Len(token) + 1]

RECURSIVE CS_parse_token(_, _)

\* ConversationApp.parse_token: for char in token
CS_parse_token(st, token) ==
    IF token = <<>> THEN st
    ELSE CS_parse_token(CS_parse_char(st, Head(token)), Tail(token))

\* The parser and the queues become st.
SetParser(st) ==
    /\ speech_queue' = st.speech_queue
    /\ action_queue' = st.action_queue
    /\ current_quote' = st.current_quote
    /\ current_action' = st.current_action
    /\ in_quote' = st.in_quote
    /\ in_action' = st.in_action
    /\ star_count' = st.star_count

\* The characters of the responses stored in the history
RECURSIVE StoredText(_)

StoredText(msgs) ==
    IF msgs = <<>> THEN 0
    ELSE StoredText(Tail(msgs))
         + (IF Head(msgs).role = "assistant" THEN Len(Head(msgs).content) ELSE 0)

\* The fragments the backend may stream next: the non-empty contents of a
\* delta, while the session has fewer than MaxStream characters
StreamFragments ==
    UNION { [1..n -> StreamChars] :
              n \in 1..(MaxStream - StoredText(messages) - Len(full_response)) }

\* The user stops speaking while no turn runs and no event waits.
CS_Speech ==
    /\ app = "conversation_app.py"
    /\ pc = "idle"
    /\ socket = <<>>
    /\ socket' = <<[type |-> "speech_stopped", overlapping |-> FALSE]>>
    /\ UNCHANGED <<app, server_vars, messages, messages_with_summary, pc, iteration, final_response,
                   finish_reason, tool_calls, tc_index, outcome, posts, last_request,
                   executed, response, parser_vars, processing_speech, is_speaking, trigger>>

\* A faulty variant of the start of process_message: the parser is not reset.
CS_process_message_no_reset(user_message) ==
    /\ messages' = Append(messages, UserMessage(user_message))
    /\ pc' = "stream"
    /\ posts' = 1
    /\ last_request' = messages'
    /\ outcome' = NoOutcome
    /\ response' = NoResponse
    /\ full_response' = <<>>
    /\ SetParser(ParserState)
    /\ UNCHANGED <<app, server_vars, messages_with_summary, iteration, final_response, finish_reason,
                   tool_calls, tc_index, executed>>

\* process_message up to its first await: the user message is appended, the
\* parser is reset, and the history is POSTed with stream: true.
CS_process_message(user_message) ==
    /\ messages' = Append(messages, UserMessage(user_message))
    /\ pc' = "stream"
    /\ posts' = 1
    /\ last_request' = messages'
    /\ outcome' = NoOutcome
    /\ response' = NoResponse
    /\ full_response' = <<>>
    /\ SetParser(ResetParser(ParserState))
    /\ UNCHANGED <<app, server_vars, messages_with_summary, iteration, final_response, finish_reason,
                   tool_calls, tc_index, executed>>

\* The listener reads an event and handle_event runs up to its first await:
\* on_speech_started; or on_speech_stopped, which skips the event while
\* processing_speech is set and otherwise sets it and enters process_message
\* through process_speech_event.
CS_HandleEvent ==
    /\ app = "conversation_app.py"
    /\ pc = "idle"
    /\ socket # <<>>
    /\ Head(socket).type = "speech_stopped" /\ ~processing_speech
           => Turns(messages) < MaxTurns
    /\ socket' = Tail(socket)
    /\ LET event == Head(socket) IN
       IF event.type = "speech_started"
       THEN /\ is_speaking' = TRUE
            /\ UNCHANGED <<app, server_vars, messages, messages_with_summary, pc, iteration,
                           final_response, finish_reason, tool_calls, tc_index, outcome,
                           posts, last_request, executed, response, parser_vars,
                           processing_speech, trigger>>
       ELSE /\ is_speaking' = FALSE
            /\ IF processing_speech
               THEN UNCHANGED <<app, server_vars, messages, messages_with_summary, pc, iteration,
                                final_response, finish_reason, tool_calls, tc_index,
                                outcome, posts, last_request, executed, response,
                                parser_vars, processing_speech, trigger>>
               ELSE /\ processing_speech' = TRUE
                    /\ trigger' = event
                    /\ CS_process_message(Word("Hello, I just said something to you."))

\* chat_completion_stream yields a fragment: parse_token has run on it, and
\* process_message adds it to full_response.
CS_Token(token) ==
    /\ app = "conversation_app.py"
    /\ pc = "stream"
    /\ SetParser(CS_parse_token(ParserState, token))
    /\ full_response' = full_response \o token
    /\ UNCHANGED <<app, server_vars, messages, messages_with_summary, pc, iteration, final_response,
                   finish_reason, tool_calls, tc_index, outcome, posts, last_request,
                   executed, response, speech_vars>>

\* The turn ends: on_speech_stopped's finally clears the flag.
CS_EndTurn(msgs, out) ==
    /\ messages' = msgs
    /\ outcome' = out
    /\ pc' = "idle"
    /\ full_response' = <<>>
    /\ processing_speech' = FALSE
    /\ trigger' = NoEvent
    /\ UNCHANGED <<app, server_vars, messages_with_summary, iteration, final_response, finish_reason,
                   tool_calls, tc_index, posts, last_request, executed, response,
                   speech_queue, action_queue, current_quote, current_action, in_quote,
                   in_action, star_count, socket, is_speaking>>

\* The stream ends ("[DONE]", or no more lines): the response is appended to
\* the history and returned.
CS_StreamEnd ==
    /\ app = "conversation_app.py"
    /\ pc = "stream"
    /\ CS_EndTurn(Append(messages, [role |-> "assistant", content |-> full_response]),
                  Returned(full_response))

\* The request fails (the connection, or raise_for_status) before a fragment
\* has arrived: the exception leaves process_message and on_speech_stopped
\* logs it.
CS_StreamError ==
    /\ app = "conversation_app.py"
    /\ pc = "stream"
    /\ full_response = <<>>
    /\ CS_EndTurn(messages, Raised("httpx.HTTPError"))

-----------------------------------------------------------------------------
(* server.py: operate_robot *)

\* BODY_PART_TO_TOOL; "power" maps to None
BODY_PART_TO_TOOL ==
    (Word("head") :> Word("move_head")) @@ (Word("antennas") :> Word("move_antennas"))
    @@ (Word("emotion") :> Word("express_emotion")) @@ (Word("gesture") :> Word("perform_gesture"))
    @@ (Word("nod") :> Word("nod_head")) @@ (Word("shake") :> Word("shake_head"))
    @@ (Word("tilt") :> Word("tilt_head")) @@ (Word("look") :> Word("look_at_direction"))
    @@ (Word("power") :> None) @@ (Word("reset_head") :> Word("reset_head"))
    @@ (Word("reset_antennas") :> Word("reset_antennas")) @@ (Word("state") :> Word("get_robot_state"))
    @@ (Word("head_state") :> Word("get_head_state"))
    @@ (Word("antennas_state") :> Word("get_antennas_state"))
    @@ (Word("power_state") :> Word("get_power_state")) @@ (Word("health") :> Word("get_health_status"))
    @@ (Word("stop") :> Word("stop_all_movements"))

\* list(BODY_PART_TO_TOOL.keys())
available_body_parts ==
    <<Word("head"), Word("antennas"), Word("emotion"), Word("gesture"), Word("nod"),
      Word("shake"), Word("tilt"), Word("look"), Word("power"), Word("reset_head"),
      Word("reset_antennas"), Word("state"), Word("head_state"), Word("antennas_state"),
      Word("power_state"), Word("health"), Word("stop")>>

\* TOOL_REGISTRY as the tools repository filled it: look_at_direction was not
\* loaded
registry == {Word("nod_head"), Word("turn_on_robot"), Word("turn_off_robot")}

\* The most commands of a sequence
MaxCommands == 2

\* The commands of a sequence: a string; a mapping without bodyPart, with an
\* empty one, with one that is no body part, a number or a list; power with
\* the states "ON", "off", "standby", 1 and none; nod; look
Commands ==
    { JStr(Word("nod")),
      JDict(Word("angle") :> JNum("15")),
      JDict(Word("bodyPart") :> JStr(<<>>)),
      JDict(Word("bodyPart") :> JStr(Word("wings"))),
      JDict(Word("bodyPart") :> JNum("7")),
      JDict(Word("bodyPart") :> JList(<<JStr(Word("nod"))>>)),
      JDict((Word("bodyPart") :> JStr(Word("power"))) @@ (Word("state") :> JStr(Word("ON")))),
      JDict((Word("bodyPart") :> JStr(Word("power"))) @@ (Word("state") :> JStr(Word("off")))),
      JDict((Word("bodyPart") :> JStr(Word("power")))
            @@ (Word("state") :> JStr(Word("standby")))),
      JDict((Word("bodyPart") :> JStr(Word("power"))) @@ (Word("state") :> JNum("1"))),
      JDict(Word("bodyPart") :> JStr(Word("power"))),
      JDict((Word("bodyPart") :> JStr(Word("nod"))) @@ (Word("angle") :> JNum("15"))),
      JDict(Word("bodyPart") :> JStr(Word("look"))) }

\* The arguments of operate_robot: the lists of up to MaxCommands commands,
\* and a single command that is not in a list
CommandArguments ==
    { JList(cmds) : cmds \in UNION { [1..n -> Commands] : n \in 0..MaxCommands } }
    \cup { JDict(Word("bodyPart") :> JStr(Word("nod"))) }

\* str(e) of what a tool function raises, or of the httpx.HTTPError that
\* make_request catches
RobotErrors == {Word("daemon unreachable")}

\* make_request: the value it returns when the HTTP request fails
make_request_failed(e) ==
    JDict((Word("error") :> JStr(e)) @@ (Word("status") :> JStr(Word("failed"))))

\* What a tool function returns: the answer of the daemon, or what
\* make_request returns for a failed request
RobotResults ==
    {JDict(Word("status") :> JStr(Word("ok")))} \cup { make_request_failed(e) : e \in RobotErrors }

\* bool(value)
Truthy(value) ==
    CASE value.t = "str" -> value.v # <<>>
      [] value.t = "num" -> value.v # "0"
      [] value.t = "bool" -> value.v
      [] value.t = "null" -> FALSE
      [] value.t = "list" -> value.v # <<>>
      [] value.t = "dict" -> DOMAIN value.v # {}

\* hash(value) is defined: lists and dicts are unhashable
Hashable(value) == value.t \notin {"list", "dict"}

\* str.lower() on the strings of the commands
Lower(text) ==
    [i \in DOMAIN text |->
        [text[i] EXCEPT !.c = CASE @ = "ON" -> "on"
                                [] @ = "OFF" -> "off"
                                [] OTHER -> @]]

\* command.get(key, default)
CommandGet(command, key, default) ==
    IF key \in DOMAIN command.v THEN command.v[key] ELSE default

\* f"...{body_part}...": str(body_part)
FormatValue(value) == IF value.t = "str" THEN value.v ELSE JsonDumps(value)

\* The entry of a command that fails before a tool is called
FailedEntry(fields, error) == fields @@ [error |-> error, status |-> "failed"]

\* {k: v for k, v in command.items() if k != "bodyPart"}
ParametersOf(command) ==
    JDict([key \in DOMAIN command.v \ {Word("bodyPart")} |-> command.v[key]])

\* The body of the loop of operate_robot for the command at position i, up to
\* the call of the tool: the entry of a command that fails, the exception that
\* leaves operate_robot, or the tool to call
SV_command(command, i) ==
    IF command.t # "dict"
    THEN [kind |-> "failed",
          entry |-> FailedEntry([command_index |-> i],
                                Word("Each command must be a dictionary"))]
    ELSE
    LET body_part == CommandGet(command, Word("bodyPart"), JNull) IN
    IF ~Truthy(body_part)
    THEN [kind |-> "failed",
          entry |-> FailedEntry([command_index |-> i,
                                 available_body_parts |-> available_body_parts],
                                Word("Missing 'bodyPart' in command"))]
    ELSE IF ~Hashable(body_part)
    THEN [kind |-> "raise", exc |-> "TypeError"]
    ELSE
    LET mapped == IF body_part.t = "str" /\ body_part.v \in DOMAIN BODY_PART_TO_TOOL
                  THEN BODY_PART_TO_TOOL[body_part.v] ELSE None
        state_value == CommandGet(command, Word("state"), JStr(<<>>))
        state == Lower(state_value.v)
        tool_name == IF body_part # JStr(Word("power")) THEN mapped
                     ELSE IF state = Word("on") THEN Word("turn_on_robot")
                     ELSE IF state = Word("off") THEN Word("turn_off_robot")
                     ELSE None
    IN  IF body_part = JStr(Word("power")) /\ state_value.t # "str"
        THEN [kind |-> "raise", exc |-> "AttributeError"]
        ELSE IF body_part = JStr(Word("power")) /\ tool_name = None
        THEN [kind |-> "failed",
              entry |-> FailedEntry([command_index |-> i, bodyPart |-> body_part],
                                    Word("Power state must be 'on' or 'off'"))]
        ELSE IF tool_name = None
        THEN [kind |-> "failed",
              entry |-> FailedEntry([command_index |-> i, bodyPart |-> body_part,
                                     available_body_parts |-> available_body_parts],
                                    <<W("Unknown bodyPart '")>> \o FormatValue(body_part)
                                        \o <<W("'")>>)]
        ELSE IF tool_name \notin registry
        THEN [kind |-> "failed",
              entry |-> FailedEntry([command_index |-> i, bodyPart |-> body_part,
                                     tool_name |-> tool_name],
                                    <<W("Tool '")>> \o tool_name
                                        \o <<W("' not found in registry")>>)]
        ELSE [kind |-> "call", bodyPart |-> body_part, tool |-> tool_name,
              parameters |-> ParametersOf(command)]

\* The dictionary that operate_robot returns after its loop
SV_result(cmds, res, failed) ==
    [total_commands |-> Len(cmds),
     successful |-> Len(cmds) - failed,
     failed |-> failed,
     results |-> res,
     status |-> IF failed = 0 THEN "success"
                ELSE IF failed < Len(cmds) THEN "partial" ELSE "failed"]

RECURSIVE SV_for(_, _, _, _)

\* for idx, command in enumerate(commands), from position i: up to the next
\* await of a tool, the return, or an exception that leaves operate_robot
SV_for(cmds, i, res, failed) ==
    IF i >= Len(cmds) THEN [kind |-> "return", value |-> SV_result(cmds, res, failed)]
    ELSE LET step == SV_command(cmds[i + 1], i) IN
         IF step.kind = "failed" THEN SV_for(cmds, i + 1, Append(res, step.entry), failed + 1)
         ELSE IF step.kind = "raise" THEN step
         ELSE [kind |-> "await", i |-> i, results |-> res, failed_count |-> failed,
               call |-> step]

\* operate_robot goes on to where stop says: it awaits a tool, returns, or
\* is left by an exception; ex are the tools called so far.
SV_Goto(stop, ex) ==
    IF stop.kind = "await"
    THEN /\ pc' = "tool"
         /\ command_idx' = stop.i
         /\ results' = stop.results
         /\ failed_count' = stop.failed_count
         /\ outcome' = NoOutcome
         /\ executed' = Append(ex, [command_index |-> stop.i, name |-> stop.call.tool,
                                    arguments |-> stop.call.parameters])
    ELSE /\ pc' = "idle"
         /\ command_idx' = 0
         /\ results' = <<>>
         /\ failed_count' = 0
         /\ outcome' = IF stop.kind = "return" THEN Returned(stop.value)
                       ELSE Raised(stop.exc)
         /\ executed' = ex

\* The dictionary that operate_robot returns when commands is not a list
NotAList ==
    [error |-> Word("commands parameter must be a list of command dictionaries"),
     status |-> "failed"]

\* A client calls operate_robot, once in a behaviour (a call leaves nothing
\* behind for the next one): the function up to its first await, or to its end.
SV_Call(argument) ==
    /\ app = "server.py"
    /\ pc = "idle"
    /\ commands = JNull
    /\ commands' = argument
    /\ SV_Goto(IF argument.t # "list" THEN [kind |-> "return", value |-> NotAList]
               ELSE SV_for(argument.v, 0, <<>>, 0),
               <<>>)
    /\ UNCHANGED <<app, messages, messages_with_summary, iteration, final_response,
                   finish_reason, tool_calls, tc_index, posts, last_request, response,
                   speech_vars, parser_vars>>

\* The tool function returns: its entry is appended with status success, and
\* the loop goes on.
SV_ToolReturn(result) ==
    /\ app = "server.py"
    /\ pc = "tool"
    /\ LET call == SV_command(commands.v[command_idx + 1], command_idx)
           entry == [command_index |-> command_idx, bodyPart |-> call.bodyPart,
                     tool |-> call.tool, parameters |-> call.parameters,
                     result |-> result, status |-> "success"]
       IN  SV_Goto(SV_for(commands.v, command_idx + 1, Append(results, entry), failed_count),
                   executed)
    /\ UNCHANGED <<app, commands, messages, messages_with_summary, iteration,
                   final_response, finish_reason, tool_calls, tc_index, posts, last_request,
                   response, speech_vars, parser_vars>>

\* The tool function raises: the exception is caught, its entry is appended
\* with status failed, and the loop goes on.
SV_ToolRaise(e) ==
    /\ app = "server.py"
    /\ pc = "tool"
    /\ LET call == SV_command(commands.v[command_idx + 1], command_idx)
           entry == [command_index |-> command_idx, bodyPart |-> call.bodyPart,
                     tool |-> call.tool, parameters |-> call.parameters,
                     error |-> e, status |-> "failed"]
       IN  SV_Goto(SV_for(commands.v, command_idx + 1, Append(results, entry),
                          failed_count + 1),
                   executed)
    /\ UNCHANGED <<app, commands, messages, messages_with_summary, iteration,
                   final_response, finish_reason, tool_calls, tc_index, posts, last_request,
                   response, speech_vars, parser_vars>>

-----------------------------------------------------------------------------
(* The contents on which the extraction of a tool call from text is run *)

\* The keys of a mapping of parameters: at most MaxKeys of them
MaxKeys == 2

ParamKeys == <<Word("angle"), Word("duration"), Word("commands"), Word("speed")>>

\* '[1]', a list as text
ListText == <<P("["), Num("1"), P("]")>>

\* '{"loop": "true", "steps": "[1]"}', a mapping as text, with a list as text in it
MappingText ==
    <<P("{"), Q(Word("loop")), P(":"), Q(Word("true")), P(","),
      Q(Word("steps")), P(":"), Q(ListText), P("}")>>

\* The values of a parameter: the strings "null", "None", "true", "false" and
\* "2.0", a number, a boolean, null, a list, a list and a mapping that are
\* encoded as strings, and a nested mapping with such strings in it.
ParamValues ==
    { JStr(Word("null")), JStr(Word("None")), JStr(Word("true")), JStr(Word("false")),
      JStr(Word("2.0")), JNum("30"), JBool(TRUE), JNull, JList(<<JNum("1")>>),
      JStr(ListText), JStr(MappingText),
      JDict((Word("mode") :> JStr(Word("null"))) @@ (Word("steps") :> JStr(ListText))) }

\* The mappings of parameters: every assignment of values to some of the
\* first MaxKeys keys
ParamMappings ==
    LET keys == { ParamKeys[i] : i \in { j \in DOMAIN ParamKeys : j <= MaxKeys } }
    IN  UNION { [K -> ParamValues] : K \in SUBSET keys }

\* '{"name": <name>, "parameters": <parameters>}'
ToolCallText(name, parameters) ==
    <<P("{"), Q(Word("name")), P(":"), WS>> \o JsonDumps(name) \o <<P(","), WS,
      Q(Word("parameters")), P(":"), WS>> \o JsonDumps(parameters) \o <<P("}")>>

\* Contents that name a known tool, with every mapping of parameters
MappingContents == { ToolCallText(JStr(Word("nod_head")), JDict(f)) : f \in ParamMappings }

\* Contents without a pair of braces: prose, white space, a list, an opening
\* brace only, a closing brace only, a closing brace before the opening one
BracelessContents ==
    { PlainText, <<WS>>, <<WS, WS>>, ListText,
      <<W("Hi "), P("{")>>, <<P("}"), W(" there")>>, <<P("}"), W(" and "), P("{")>> }

\* Contents with a pair of braces that hold no tool call: prose in braces, a
\* mapping without "name", a name that is a list, a number, a mapping, or the
\* name of no tool, with or without parameters
NoCallContents ==
    { <<P("{"), W("hello"), P("}")>>,
      <<P("{"), Q(Word("parameters")), P(":"), P("{"), P("}"), P("}")>>,
      <<P("{"), Q(Word("name")), P(":"), Q(Word("fly_away")), P("}")>>,
      ToolCallText(JStr(Word("fly_away")), JDict(EmptyMap)),
      ToolCallText(JStr(Word("NOD_HEAD")), JDict(Word("angle") :> JNum("30"))),
      ToolCallText(JList(<<JStr(Word("nod_head"))>>), JDict(EmptyMap)),
      ToolCallText(JNum("7"), JDict(EmptyMap)),
      ToolCallText(JDict(Word("nod_head") :> JNull), JDict(EmptyMap)),
      ToolCallText(JNull, JDict(EmptyMap)) }

\* Contents that name a known tool in other shapes: no parameters, parameters
\* that are a list, a string, a number or null, prose or a list around the
\* mapping, and a text cut before its last closing brace
OtherCallContents ==
    { <<P("{"), Q(Word("name")), P(":"), Q(Word("operate_robot")), P("}")>>,
      ToolCallText(JStr(Word("nod_head")), JList(<<>>)),
      ToolCallText(JStr(Word("nod_head")), JStr(Word("fast"))),
      ToolCallText(JStr(Word("nod_head")), JNum("30")),
      ToolCallText(JStr(Word("nod_head")), JNull),
      <<W("Sure: ")>> \o JsonKnownTool \o <<W("$")>>,
      <<P("[")>> \o JsonKnownTool \o <<P("]")>>,
      SubSeq(JsonKnownTool, 1, Len(JsonKnownTool) - 1) }

ExtractContents == MappingContents \cup BracelessContents \cup NoCallContents \cup OtherCallContents

\* choices[0] of the responses with these contents: without tool_calls under
\* every finish_reason (the mappings of parameters under stop), and next to
\* native calls
ExtractResponses ==
    { [message |-> AssistantMessage(c, FALSE, 0, 0), finish_reason |-> "stop"] :
        c \in MappingContents }
    \cup
    { [message |-> AssistantMessage(c, FALSE, 0, 0), finish_reason |-> fr] :
        c \in BracelessContents \cup NoCallContents \cup OtherCallContents,
        fr \in FinishReasons }
    \cup
    { [message |-> AssistantMessage(c, TRUE, 0, 0), finish_reason |-> "stop"] :
        c \in BracelessContents \cup NoCallContents }
    \cup
    { [message |-> AssistantMessage(c, TRUE, n, 0), finish_reason |-> fr] :
        c \in { JsonKnownTool,
                ToolCallText(JStr(Word("operate_robot")), JDict(EmptyMap)),
                ToolCallText(JStr(Word("fly_away")), JDict(EmptyMap)) },
        n \in 1..2, fr \in FinishReasons }

\* The responses after the first one of a session: prose
FollowUpResponses ==
    { [message |-> AssistantMessage(PlainText, FALSE, 0, 0), finish_reason |-> "stop"] }

\* The native tool call of a response whose arguments field is a given value
NativeCallWith(arguments) ==
    [id |-> <<"tc", 1>>, type |-> "function",
     function |-> [name |-> Word("nod_head"), arguments |-> arguments]]

\* choices[0] of the responses with one native tool call whose arguments are
\* any mapping of parameters, as the text of a JSON object or as a mapping
ArgumentsResponses ==
    { [message |-> [role |-> "assistant", content |-> None,
                    tool_calls |-> <<NativeCallWith(a)>>],
       finish_reason |-> "tool_calls"] :
        a \in { JStr(JsonDumps(JDict(f))) : f \in ParamMappings }
              \cup { JDict(f) : f \in ParamMappings } }

\* The backend answers the first request of a session with any of these
\* native calls and every later request with prose.
ArgumentsResponsesNow ==
    IF posts = 1 /\ Len(messages) = 2 THEN ArgumentsResponses ELSE FollowUpResponses

\* The texts of tool calls that the backend may cut short:
\* '{"name": "nod_head", "parameters": {}}', the same with one parameter, with
\* a nested mapping followed by a second parameter, with "name" after the
\* parameters, with a further key "id" that is a mapping, and
\* '{"name": "operate_robot"}'
CallTexts ==
    { JsonKnownTool,
      ToolCallText(JStr(Word("nod_head")), JDict(Word("angle") :> JNum("30"))),
      <<P("{"), Q(Word("name")), P(":"), Q(Word("nod_head")), P(","),
        Q(Word("parameters")), P(":"), P("{"),
            Q(Word("angle")), P(":"), P("{"), Q(Word("mode")), P(":"), Num("1"), P("}"), P(","),
            Q(Word("speed")), P(":"), Num("2"),
        P("}"), P("}")>>,
      <<P("{"), Q(Word("parameters")), P(":"), P("{"), Q(Word("angle")), P(":"), Num("30"),
        P("}"), P(","), Q(Word("name")), P(":"), Q(Word("nod_head")), P("}")>>,
      <<P("{"), Q(Word("name")), P(":"), Q(Word("nod_head")), P(","),
        Q(Word("parameters")), P(":"), P("{"), P("}"), P(","),
        Q(Word("id")), P(":"), P("{"), Q(Word("n")), P(":"), Num("1"), P("}"), P("}")>>,
      <<P("{"), Q(Word("name")), P(":"), Q(Word("operate_robot")), P("}")>> }

\* The number of characters the backend may cut from the end of a text
MaxCut == 3

\* The text without its last k characters
Cut(text, k) == SubSeq(text, 1, Len(text) - k)

\* Contents that hold a tool call cut short, alone or within brace-free prose
TruncatedContents ==
    { pre \o Cut(text, k) \o post :
        pre \in {<<>>, <<W("Sure: ")>>}, text \in CallTexts, k \in 0..MaxCut,
        post \in {<<>>, <<W(" ok")>>} }

\* choices[0] of the responses with these contents, without tool_calls
TruncatedResponses ==
    { [message |-> AssistantMessage(c, FALSE, 0, 0), finish_reason |-> fr] :
        c \in TruncatedContents, fr \in {"stop", "length"} }

\* The backend answers the first request of a session with any of these
\* contents and every later request with prose.
TruncatedResponsesNow ==
    IF posts = 1 /\ Len(messages) = 2 THEN TruncatedResponses ELSE FollowUpResponses

\* The backend answers the first request of a session with any of the
\* contents above and every later request with prose.
ExtractResponsesNow ==
    IF posts = 1 /\ Len(messages) = 2 THEN ExtractResponses ELSE FollowUpResponses

-----------------------------------------------------------------------------
(* Specifications *)

\* The state after __init__ and initialize_mcp: the history holds the system
\* prompt (chat_completions_mcp.py keeps none: its history starts empty).
InitOf(a) ==
    /\ app = a
    /\ messages = IF a \in {"chat_completions_mcp.py", "server.py"} THEN <<>>
                  ELSE <<SystemMessage(system_prompt)>>
    /\ messages_with_summary = <<>>
    /\ pc = "idle"
    /\ iteration = 0
    /\ final_response = None
    /\ finish_reason = ""
    /\ tool_calls = <<>>
    /\ tc_index = 0
    /\ outcome = NoOutcome
    /\ posts = 0
    /\ last_request = <<>>
    /\ executed = <<>>
    /\ response = NoResponse
    /\ socket = <<>>
    /\ processing_speech = FALSE
    /\ is_speaking = FALSE
    /\ trigger = NoEvent
    /\ ParserConstructed
    /\ NoOperation

InitChat == InitOf("chat_app.py")

NextChat ==
    \/ \E user_message \in UserTexts : CA_UserInput(user_message)
    \/ \E resp \in Responses : CA_CompletionResponse(resp)
    \/ CA_CompletionError
    \/ \E tool_result \in ToolResults : CA_ToolReturn(tool_result)
    \/ \E e \in ToolErrors : CA_ToolRaise(e)
    \/ CA_Clear

\* chat_app.py: a session of InteractiveChatApp.run
SpecChat == InitChat /\ [][NextChat]_vars

InitConv == InitOf("conversation_app_mcp.py")

NextConv ==
    \/ CM_Speech
    \/ CM_HandleEvent
    \/ \E resp \in Responses : CM_CompletionResponse(resp)
    \/ CM_CompletionError
    \/ \E tool_result \in ToolResults : CM_ToolReturn(tool_result)
    \/ \E e \in ToolErrors : CM_ToolRaise(e)

\* conversation_app_mcp.py: the turns of a session of ConversationApp.run, with
\* every response of the backend; the user speaks between turns.
SpecConv == InitConv /\ [][NextConv]_vars

NextSpeech ==
    \/ \E type \in EventTypes : CM_EmitEvent(type)
    \/ CM_HandleEvent
    \/ \E resp \in SpeechResponses : CM_CompletionResponse(resp)
    \/ CM_CompletionError
    \/ \E tool_result \in CM_ToolResults : CM_ToolReturn(tool_result)
    \/ \E e \in ToolErrors : CM_ToolRaise(e)

\* conversation_app_mcp.py: the listener of a session of ConversationApp.run,
\* with events that arrive at any time and a backend that answers with prose
\* or with one tool call.
SpecSpeech == InitConv /\ [][NextSpeech]_vars

\* The longest message list handed to the sanitizer
SanMaxLen == 4

\* The messages of the lists handed to the sanitizer: a system and a user
\* message, assistant messages without tool_calls, with an empty list, with one
\* and with two calls, and the tool messages of those calls.
SanMessages ==
    { SystemMessage(system_prompt),
      UserMessage(Word("Hello, I just said something to you.")),
      AssistantMessage(PlainText, FALSE, 0, 0),
      AssistantMessage(None, TRUE, 0, 0),
      AssistantMessage(None, TRUE, 1, 0),
      AssistantMessage(None, TRUE, 2, 0),
      ToolMessage(<<"tc", 1>>, Word("nod_head"), JsonDumps(JStr(Word("done")))),
      ToolMessage(<<"tc", 2>>, Word("nod_head"), JsonDumps(JStr(Word("done")))) }

\* A message list, any of those up to SanMaxLen long, is about to be sent.
InitSan ==
    /\ app = "chat_app.py"
    /\ messages \in UNION { [1..n -> SanMessages] : n \in 0..SanMaxLen }
    /\ messages_with_summary = messages
    /\ pc = "prepare"
    /\ iteration = 1
    /\ final_response = None
    /\ finish_reason = ""
    /\ tool_calls = <<>>
    /\ tc_index = 0
    /\ outcome = NoOutcome
    /\ posts = 0
    /\ last_request = <<>>
    /\ executed = <<>>
    /\ response = NoResponse
    /\ socket = <<>>
    /\ processing_speech = FALSE
    /\ is_speaking = FALSE
    /\ trigger = NoEvent
    /\ ParserConstructed
    /\ NoOperation

\* chat_completion calls _prepare_messages_for_api on the list and POSTs the
\* result.
CA_Prepare ==
    /\ app = "chat_app.py"
    /\ pc = "prepare"
    /\ response' = response
    /\ Set(messages, messages_with_summary, "completion", iteration, final_response, "",
           <<>>, 0, NoOutcome, posts + 1, CA_prepare_messages_for_api(messages_with_summary),
           executed)
    /\ UNCHANGED speech_vars

NextSan == CA_Prepare

\* chat_app.py: _prepare_messages_for_api over every message list
SpecSan == InitSan /\ [][NextSan]_vars

InitCC == InitOf("chat_completions_mcp.py")

NextCC ==
    \/ \E user_message \in UserTexts : CC_RunConversation(user_message)
    \/ \E resp \in Responses : CC_CompletionResponse(resp)
    \/ CC_CompletionError
    \/ \E tool_result \in ToolResults : CC_ToolReturn(tool_result)
    \/ \E e \in ToolErrors : CC_ToolRaise(e)

\* chat_completions_mcp.py: one run of main
SpecCC == InitCC /\ [][NextCC]_vars

\* The three turn loops
Init == \E a \in {"chat_app.py", "conversation_app_mcp.py", "chat_completions_mcp.py"} : InitOf(a)

Next == NextChat \/ NextConv \/ NextCC

Spec == Init /\ [][Next]_vars

InitOpenAI == InitOf("chat_app_openai.py")

NextOpenAI ==
    \/ \E user_message \in UserTexts : CO_UserInput(user_message)
    \/ \E resp \in Responses : CO_CompletionResponse(resp)
    \/ CO_CompletionError
    \/ \E tool_result \in ToolResults : CO_ToolReturn(tool_result)
    \/ \E e \in ToolErrors : CO_ToolRaise(e)
    \/ CO_Clear

\* chat_app_openai.py: a session of InteractiveChatApp.run
SpecOpenAI == InitOpenAI /\ [][NextOpenAI]_vars

\* The four entry points that keep a conversation
InitApps ==
    \E a \in {"chat_app.py", "chat_app_openai.py", "conversation_app_mcp.py",
              "chat_completions_mcp.py"} : InitOf(a)

NextApps == NextChat \/ NextOpenAI \/ NextConv \/ NextCC

SpecApps == InitApps /\ [][NextApps]_vars

InitExtract == \E a \in {"chat_app.py", "conversation_app_mcp.py"} : InitOf(a)

NextExtract ==
    \/ \E user_message \in UserTexts : CA_UserInput(user_message)
    \/ \E resp \in ExtractResponsesNow : CA_CompletionResponse(resp)
    \/ \E tool_result \in ToolResults : CA_ToolReturn(tool_result)
    \/ \E e \in ToolErrors : CA_ToolRaise(e)
    \/ CM_Speech
    \/ CM_HandleEvent
    \/ \E resp \in ExtractResponsesNow : CM_CompletionResponse(resp)
    \/ \E tool_result \in ToolResults : CM_ToolReturn(tool_result)
    \/ \E e \in ToolErrors : CM_ToolRaise(e)

\* chat_app.py and conversation_app_mcp.py: sessions in which the first
\* response carries any of the contents of the extraction
SpecExtract == InitExtract /\ [][NextExtract]_vars

NextArguments ==
    \/ \E user_message \in UserTexts : CA_UserInput(user_message)
    \/ \E resp \in ArgumentsResponsesNow : CA_CompletionResponse(resp)
    \/ \E tool_result \in ToolResults : CA_ToolReturn(tool_result)
    \/ \E e \in ToolErrors : CA_ToolRaise(e)
    \/ CM_Speech
    \/ CM_HandleEvent
    \/ \E resp \in ArgumentsResponsesNow : CM_CompletionResponse(resp)
    \/ \E tool_result \in ToolResults : CM_ToolReturn(tool_result)
    \/ \E e \in ToolErrors : CM_ToolRaise(e)

\* chat_app.py and conversation_app_mcp.py: sessions in which the first
\* response carries a native tool call with any mapping of arguments
SpecArguments == InitExtract /\ [][NextArguments]_vars

NextTruncated ==
    \/ \E user_message \in UserTexts : CA_UserInput(user_message)
    \/ \E resp \in TruncatedResponsesNow : CA_CompletionResponse(resp)
    \/ \E tool_result \in ToolResults : CA_ToolReturn(tool_result)
    \/ \E e \in ToolErrors : CA_ToolRaise(e)
    \/ CM_Speech
    \/ CM_HandleEvent
    \/ \E resp \in TruncatedResponsesNow : CM_CompletionResponse(resp)
    \/ \E tool_result \in ToolResults : CM_ToolReturn(tool_result)
    \/ \E e \in ToolErrors : CM_ToolRaise(e)

\* chat_app.py and conversation_app_mcp.py: sessions in which the content of
\* the first response holds a tool call that was cut short
SpecTruncated == InitExtract /\ [][NextTruncated]_vars

InitStream == InitOf("conversation_app.py")

NextStream ==
    \/ CS_Speech
    \/ CS_HandleEvent
    \/ \E token \in StreamFragments : CS_Token(token)
    \/ CS_StreamEnd
    \/ CS_StreamError

\* conversation_app.py: the turns of a session of ConversationApp.run, with
\* every text the backend may stream, in every fragmentation
SpecStream == InitStream /\ [][NextStream]_vars

\* The two applications that listen to speech events
InitListeners == InitConv \/ InitStream

NextListeners == NextSpeech \/ NextStream

\* conversation_app_mcp.py and conversation_app.py: the listener, the guard
\* flag and the turns that the events start
SpecListeners == InitListeners /\ [][NextListeners]_vars

InitServer == InitOf("server.py")

NextServer ==
    \/ \E argument \in CommandArguments : SV_Call(argument)
    \/ \E result \in RobotResults : SV_ToolReturn(result)
    \/ \E e \in RobotErrors : SV_ToolRaise(e)

\* server.py: a call of operate_robot, with every sequence of commands and
\* tools that return or raise
SpecServer == InitServer /\ [][NextServer]_vars

-----------------------------------------------------------------------------
(* Properties of the turn loops *)

Last(seq) == seq[Len(seq)]

\* A step in which a response arrives: the assistant message is appended.
ResponseStep == pc = "completion" /\ Len(messages') = Len(messages) + 1

\* A step that ends the tool phase of an iteration: the last call returns.
LastToolStep == pc = "tool" /\ tc_index = Len(tool_calls) /\ Len(messages') = Len(messages) + 1

\* The content is the text of a JSON object whose "name" is a known tool.
NamesKnownTool(content) ==
    LET r == JsonLoads(content) IN
    /\ r.ok
    /\ IsDict(r.val)
    /\ Word("name") \in DOMAIN r.val.v
    /\ IsStr(r.val.v[Word("name")])
    /\ r.val.v[Word("name")].v \in mcp_tools

\* The response has finish_reason stop, no native tool call, and a content
\* that names a known tool.
RecoveredCase(resp) ==
    /\ resp.finish_reason = "stop"
    /\ ~HasToolCalls(resp.message)
    /\ NamesKnownTool(Get(resp.message, "content", None))

InLoopsWithRecovery == app \in {"chat_app.py", "conversation_app_mcp.py"}

\* C1, first part: the response of the recovered case hands the named tool to
\* call_tool in the same iteration.
C1_Executes ==
    ResponseStep /\ InLoopsWithRecovery /\ RecoveredCase(response')
        => /\ pc' = "tool"
           /\ iteration' = iteration
           /\ executed' = Append(executed, Last(executed'))
           /\ Last(executed').name = JsonLoads(response'.message.content).val.v[Word("name")].v

\* C1, second part: when the tool of the recovered case has returned, another
\* completion is requested.
C1_Requests ==
    LastToolStep /\ InLoopsWithRecovery /\ RecoveredCase(response)
        => pc' = "completion" /\ posts' = posts + 1

\* C1, third part: a turn whose last response is of the recovered case does
\* not return the text of that response.
C1_NotReturned ==
    InLoopsWithRecovery /\ pc = "idle" /\ outcome.kind = "returned" /\ RecoveredCase(response)
        => outcome.value # response.message.content

\* C1: in chat_app and conversation_app_mcp, a response with finish_reason stop,
\* no native tool call and a content that is a JSON object naming a known tool
\* has that tool executed in the same iteration, another completion is then
\* requested, and the JSON text is never the value the turn returns.
C1_RecoveredCallIsExecuted ==
    [][C1_Executes /\ C1_Requests]_vars /\ []C1_NotReturned

\* The response carries at least one tool call: a native one, or, in the
\* loops that recover calls from content, a content naming a known tool.
CarriesToolCall(resp) ==
    \/ HasToolCalls(resp.message)
    \/ InLoopsWithRecovery /\ NamesKnownTool(Get(resp.message, "content", None))

\* C2, first part: a response that carries a tool call starts the for loop:
\* its first call is handed to call_tool.
C2_FirstCall ==
    ResponseStep /\ CarriesToolCall(response')
        => /\ pc' = "tool"
           /\ tc_index' = 1
           /\ HasToolCalls(response'.message) => tool_calls' = response'.message.tool_calls
           /\ executed' = Append(executed, Last(executed'))
           /\ Last(executed').id = tool_calls'[1].id

\* C2, second part: when a call returns or fails, the next call of the
\* response is handed to call_tool.
C2_NextCall ==
    pc = "tool" /\ tc_index < Len(tool_calls) /\ Len(messages') = Len(messages) + 1
        => /\ pc' = "tool"
           /\ tc_index' = tc_index + 1
           /\ tool_calls' = tool_calls
           /\ executed' = Append(executed, Last(executed'))
           /\ Last(executed').id = tool_calls[tc_index + 1].id

\* C2, third part: after the last call the loop requests another completion.
C2_LoopsBack == LastToolStep => pc' = "completion" /\ posts' = posts + 1

\* C2: in chat_app, conversation_app_mcp and chat_completions_mcp, a response
\* that carries at least one tool call, native or recovered, has every call
\* executed and is followed by another completion request, whatever its
\* finish_reason.
C2_ToolCallsAlwaysExecuted == [][C2_FirstCall /\ C2_NextCall /\ C2_LoopsBack]_vars

\* C2 for the responses whose calls have a mapping of arguments, in iterations
\* before the last: the finish_reason alone decides.
C2_WhateverFinishReason ==
    [][ResponseStep /\ iteration < MaxIterations /\ HasToolCalls(response'.message)
         /\ (\A k \in DOMAIN response'.message.tool_calls :
                 response'.message.tool_calls[k].function.arguments = ArgsMapping)
         => pc' = "tool"]_vars

\* The messages of the current (or last) turn: those after the last user message.
RECURSIVE TurnMessages(_)

TurnMessages(msgs) ==
    IF msgs = <<>> \/ Last(msgs).role = "user" THEN <<>>
    ELSE Append(TurnMessages(SubSeq(msgs, 1, Len(msgs) - 1)), Last(msgs))

\* Every response of the turn carried a tool call: each assistant message of
\* the turn has tool calls, native or synthesized.
AllToolCalling(msgs) ==
    \A i \in DOMAIN TurnMessages(msgs) :
        TurnMessages(msgs)[i].role = "assistant" => HasToolCalls(TurnMessages(msgs)[i])

\* A step that ends the turn, other than by a failure of the completion request.
TurnEndsAfterResponse ==
    /\ pc # "idle"
    /\ pc' = "idle"
    /\ ~(pc = "completion" /\ messages' = messages)

\* C3, first part: a turn issues at most max_iterations completion requests.
C3_AtMostN == InLoopsWithRecovery => posts <= MaxIterations /\ iteration <= MaxIterations

\* C3, second part: a turn in which every response carried a tool call ends
\* after exactly max_iterations requests and returns a non-empty string.
C3_ExactlyN ==
    TurnEndsAfterResponse /\ InLoopsWithRecovery /\ AllToolCalling(messages')
        => /\ posts' = MaxIterations
           /\ outcome'.kind = "returned"
           /\ outcome'.value # None

\* C3: a turn of chat_app or conversation_app_mcp issues at most max_iterations
\* completion requests; against a backend that asks for a tool call in every
\* response it ends after exactly max_iterations iterations and returns a
\* non-empty string.
C3_BudgetBoundsTheTurn == []C3_AtMostN /\ [][C3_ExactlyN]_vars

\* C3 for the turns that return: a turn in which every response carried a tool
\* call and which returns a value has issued exactly max_iterations requests.
C3_ReturnsAfterExactlyN ==
    [][TurnEndsAfterResponse /\ InLoopsWithRecovery /\ AllToolCalling(messages')
         /\ outcome'.kind = "returned"
         => posts' = MaxIterations /\ outcome'.value # None]_vars

\* A step in which call_tool raises for the call the for loop stands at.
ToolRaiseStep == \E e \in ToolErrors : CA_ToolRaise(e) \/ CM_ToolRaise(e)

\* The text of the failure as the tool message of each loop carries it.
FailureContent(tool_name, e) ==
    IF app = "chat_app.py" THEN JsonDumps(ToolErrorResult(tool_name, e))
    ELSE JsonDumps(JStr(PyStrOfError(tool_name, e)))

\* C4, first part: when call_tool raises, a tool message with the id of the
\* call and the text of the failure is appended.
C4_FailureRecorded ==
    ToolRaiseStep
        => \E e \in ToolErrors :
               messages' = Append(messages,
                                  ToolMessage(tool_calls[tc_index].id,
                                              tool_calls[tc_index].function.name,
                                              FailureContent(tool_calls[tc_index].function.name, e)))

\* C4, second part: after a failed call the next call is handed to call_tool,
\* and after the last call another completion is requested.
C4_NoSkip ==
    ToolRaiseStep
        => IF tc_index < Len(tool_calls)
           THEN /\ pc' = "tool"
                /\ tc_index' = tc_index + 1
                /\ executed' = Append(executed, Last(executed'))
                /\ Last(executed').id = tool_calls[tc_index + 1].id
           ELSE pc' = "completion" /\ posts' = posts + 1

\* C4, third part: no step of the for loop over the tool calls ends the turn
\* by an exception.
C4_NoAbort ==
    InLoopsWithRecovery /\ (pc = "tool" \/ (ResponseStep /\ CarriesToolCall(response')))
        => outcome'.kind # "raised"

\* C4: in chat_app and conversation_app_mcp, when the executor raises for a
\* tool call, a tool message carrying the failure is appended for that call,
\* every later call of the assistant message is still executed, the next
\* completion is then requested, and the turn is never aborted.
C4_ExecutorFailureIsRecovered == [][C4_FailureRecorded /\ C4_NoSkip /\ C4_NoAbort]_vars

\* C4 for three calls of which the executor raises on the second: when the
\* first call has returned, the turn goes on to the third call; it is not left
\* by the exception of the second.
C4_SecondCallFailureKeepsTurn ==
    [][/\ InLoopsWithRecovery
       /\ pc = "tool" /\ tc_index = 1 /\ Len(tool_calls) = 3
       /\ Len(messages') = Len(messages) + 1
       => pc' = "tool" /\ outcome'.kind # "raised"]_vars

\* The history ends with an assistant message whose tool calls are calls,
\* directly followed by one tool message for each of the first n calls, in
\* their order, each with the id of its call.
EndsWithAnswered(msgs, calls, n) ==
    /\ Len(msgs) > n
    /\ LET a == Len(msgs) - n IN
       /\ msgs[a].role = "assistant"
       /\ HasToolCalls(msgs[a])
       /\ msgs[a].tool_calls = calls
       /\ \A k \in 1..n :
              /\ msgs[a + k].role = "tool"
              /\ msgs[a + k].tool_call_id = calls[k].id
              /\ msgs[a + k].name = calls[k].function.name

\* While a call is awaited: it is call tc_index of the assistant message, the
\* calls before it have their tool messages and no later call has been handed
\* to call_tool.
C5_OneAtATime ==
    InLoopsWithRecovery /\ pc = "tool"
        => /\ tc_index \in 1..Len(tool_calls)
           /\ EndsWithAnswered(messages, tool_calls, tc_index - 1)
           /\ Len(executed) >= tc_index
           /\ \A k \in 1..tc_index :
                  executed[Len(executed) - tc_index + k].id = tool_calls[k].id

\* A step of the for loop hands at most one more call to call_tool, and only
\* when the tool message of the awaited call is appended.
C5_InOrder ==
    InLoopsWithRecovery /\ pc = "tool" /\ pc' = "tool"
        => /\ messages' = Append(messages, Last(messages'))
           /\ Last(messages').role = "tool"
           /\ Last(messages').tool_call_id = tool_calls[tc_index].id
           /\ tc_index' = tc_index + 1
           /\ tool_calls' = tool_calls
           /\ executed' = Append(executed, Last(executed'))

\* When the last call has returned, the history holds the assistant message
\* directly followed by exactly one tool message per call.
C5_AllAnswered ==
    InLoopsWithRecovery /\ LastToolStep
        => EndsWithAnswered(messages', tool_calls, Len(tool_calls))

\* C5: in chat_app and conversation_app_mcp the tool calls of an assistant
\* message are executed one at a time in their order: a call is dispatched only
\* after the previous call has returned and its tool message is appended, and
\* the history then holds, directly after the assistant message, exactly one
\* tool message per call, in order, with that call's id as tool_call_id.
C5_SequentialToolCalls == []C5_OneAtATime /\ [][C5_InOrder /\ C5_AllAnswered]_vars

\* C5 is reached: the third of three calls is awaited, two tool messages stored.
C5_Witness ==
    /\ InLoopsWithRecovery
    /\ pc = "tool"
    /\ Len(tool_calls) = 3
    /\ tc_index = 3
    /\ messages[Len(messages)].role = "tool"

-----------------------------------------------------------------------------
(* Properties of chat_app.py: a completion request that fails *)

\* A step in which the awaited completion request fails: no response is stored.
CompletionFailsStep == pc = "completion" /\ messages' = messages

\* The turn is aborted and the exception reaches run(): nothing is sent again
\* and no tool is executed.
C6_Aborts ==
    CompletionFailsStep
        => /\ pc' = "idle"
           /\ CompletionFailure(outcome')
           /\ posts' = posts
           /\ last_request' = last_request
           /\ executed' = executed

\* After the abort nothing more is requested or executed for that turn: the
\* counts change only when run() reads the next line (a new turn, or /clear).
C6_NothingAfterAbort ==
    pc = "idle" /\ CompletionFailure(outcome)
        => \/ posts' = posts /\ executed' = executed /\ pc' = "idle"
           \/ /\ Len(messages') = Len(messages) + 1
              /\ Last(messages').role = "user"
              /\ posts' = 1
              /\ executed' = <<>>
           \/ messages' = <<SystemMessage(system_prompt)>> /\ posts' = 0 /\ pc' = "idle"

\* C6: in chat_app a completion request that fails (timeout, transport error)
\* aborts the turn and the exception is raised to the caller: the request is
\* not sent again, and no further completion request and no tool execution
\* happens in that turn.
C6_FailedRequestAbortsTurn == [][C6_Aborts /\ C6_NothingAfterAbort]_vars

\* C6 is reached: the first request of a turn has failed.
C6_Witness ==
    /\ app = "chat_app.py"
    /\ pc = "idle"
    /\ CompletionFailure(outcome)
    /\ Last(messages).role = "user"
    /\ posts = 1
    /\ executed = <<>>

\* msgs is a prefix of more
IsPrefix(msgs, more) == Len(msgs) <= Len(more) /\ SubSeq(more, 1, Len(msgs)) = msgs

\* The step that aborts a turn for a failed completion request stores the
\* history as it was: nothing is removed, nothing is altered.
C7_HistoryKept ==
    pc = "completion" /\ CompletionFailure(outcome')
        => /\ messages' = messages
           /\ pc' = "idle"
           /\ IsPrefix(<<SystemMessage(system_prompt)>>, messages')
           /\ \E i \in DOMAIN messages' :
                  /\ messages'[i].role = "user"
                  /\ \A j \in (i + 1)..Len(messages') : messages'[j].role # "user"

\* No step of a turn takes back or alters a message stored before the step
\* (the user message of the turn, the assistant and tool messages after it).
C7_NoRollback == pc # "idle" => IsPrefix(messages, messages')

\* After the abort the next line of input starts a new turn over the kept
\* history: the user message is appended and the request holds, after the
\* system message, every message of the history that the sanitizer keeps.
C7_NextTurn ==
    pc = "idle" /\ CompletionFailure(outcome) /\ pc' = "completion"
        => /\ \E user_message \in UserTexts :
                  messages' = Append(messages, UserMessage(user_message))
           /\ posts' = 1
           /\ iteration' = 1
           /\ last_request' = CA_prepare_messages_for_api(
                                  <<SystemMessage(CA_get_enhanced_system_prompt(messages'))>>
                                  \o Tail(messages'))

\* After the abort the session is usable: run() is back at its prompt, where
\* the next line of input is read.
C7_Usable == app = "chat_app.py" /\ CompletionFailure(outcome) => pc = "idle"

\* C7: in chat_app, after a turn aborted by a failed completion request (HTTP
\* failure or malformed envelope) the history is intact: no stored message is
\* removed or altered, the messages appended in the aborted turn stay, the
\* session stays usable and the next input is processed as a new turn over
\* that history.
C7_HistoryIntactAfterAbort ==
    [][C7_HistoryKept /\ C7_NoRollback /\ C7_NextTurn]_vars /\ []C7_Usable

\* C7 is reached: a turn was aborted at its first request and the next input
\* has started a new turn over the history that holds both user messages.
C7_Witness ==
    /\ app = "chat_app.py"
    /\ pc = "completion"
    /\ posts = 1
    /\ Len(messages) = 3
    /\ messages[2].role = "user"
    /\ messages[3].role = "user"
    /\ Len(last_request) = 3

-----------------------------------------------------------------------------
(* Properties of conversation_app_mcp.py: speech events and turns *)

\* A step in which process_message is entered: the user message is appended
\* and the first completion is requested.
TurnStartStep ==
    /\ pc' = "completion"
    /\ posts' = 1
    /\ Len(messages') = Len(messages) + 1
    /\ Last(messages').role = "user"

\* A step in which the listener takes an event from the socket.
EventTakenStep == socket # <<>> /\ Len(socket') < Len(socket)

\* A turn is in progress exactly while the guard flag is set.
C8_FlagMarksTurn == processing_speech <=> pc # "idle"

\* A turn is started only while no turn is in progress and the flag is clear,
\* and the step sets the flag.
C8_StartOnlyWhenClear ==
    TurnStartStep => pc = "idle" /\ ~processing_speech /\ processing_speech'

\* The next trigger is accepted only when the turn has run to completion.
C8_AcceptAfterCompletion == EventTakenStep => pc = "idle" /\ ~processing_speech

\* C8: in the speech-triggered application at most one turn is in progress at
\* any time: a turn is started only while processing_speech is false, and it
\* runs to completion before the next trigger is accepted.
C8_OneTurnAtATime ==
    []C8_FlagMarksTurn /\ [][C8_StartOnlyWhenClear /\ C8_AcceptAfterCompletion]_vars

\* C8 is reached: a turn awaits its tool while a speech_stopped event waits.
C8_Witness ==
    /\ pc = "tool"
    /\ processing_speech
    /\ socket # <<>>
    /\ Head(socket).type = "speech_stopped"

\* C9: a speech_stopped event that arrived while a turn was in progress is
\* dropped: it never starts a turn, neither during that turn nor after it.
C9_OverlappingTriggerDropped == ~trigger.overlapping

-----------------------------------------------------------------------------
(* Properties of chat_app.py: _prepare_messages_for_api *)

\* The list was sanitized: last_request is the output for messages_with_summary.
Sanitized == app = "chat_app.py" /\ posts > 0 /\ pc = "completion"

\* C10 as the spec states it: every tool message of the output has, directly
\* before it, an assistant message with at least one tool_calls entry.
C10_ToolDirectlyAfterAssistant ==
    Sanitized
        => \A i \in DOMAIN last_request :
               last_request[i].role = "tool"
                   => /\ i > 1
                      /\ last_request[i - 1].role = "assistant"
                      /\ HasToolCalls(last_request[i - 1])

\* C10: in the output of _prepare_messages_for_api a tool message is present
\* only if an assistant message precedes it, the nearest assistant message
\* before it carries at least one tool_calls entry, and no user message lies
\* between the two.
C10_ToolOnlyAfterCallingAssistant ==
    Sanitized
        => \A i \in DOMAIN last_request :
               last_request[i].role = "tool"
                   => \E a \in 1..(i - 1) :
                          /\ last_request[a].role = "assistant"
                          /\ HasToolCalls(last_request[a])
                          /\ \A j \in (a + 1)..(i - 1) :
                                 last_request[j].role \notin {"assistant", "user"}

\* C10 is reached: the sanitizer has dropped an orphaned tool message and kept
\* the two tool messages of an assistant message with two calls.
C10_Witness ==
    /\ Sanitized
    /\ Len(last_request) < Len(messages_with_summary)
    /\ \E i \in DOMAIN last_request :
           /\ i > 2
           /\ last_request[i].role = "tool"
           /\ last_request[i - 1].role = "tool"
           /\ last_request[i - 2].role = "assistant"

\* The ids of the tool_calls entries of a message
ToolCallIds(msg) ==
    IF HasToolCalls(msg) THEN { msg.tool_calls[k].id : k \in DOMAIN msg.tool_calls } ELSE {}

\* The positions of the assistant messages before position i
AssistantsBefore(seq, i) == { a \in 1..(i - 1) : seq[a].role = "assistant" }

\* The position of the nearest assistant message before position i (0: none)
PrecedingAssistant(seq, i) ==
    IF AssistantsBefore(seq, i) = {} THEN 0
    ELSE CHOOSE a \in AssistantsBefore(seq, i) : \A b \in AssistantsBefore(seq, i) : b <= a

\* C11: every tool message of the output of _prepare_messages_for_api carries
\* a tool_call_id that is the id of a tool_calls entry of the nearest assistant
\* message kept before it; a tool message with no such entry is not in the
\* output.
C11_ToolCallIdMatchesAssistant ==
    Sanitized
        => \A i \in DOMAIN last_request :
               last_request[i].role = "tool"
                   => /\ PrecedingAssistant(last_request, i) > 0
                      /\ last_request[i].tool_call_id
                             \in ToolCallIds(last_request[PrecedingAssistant(last_request, i)])

-----------------------------------------------------------------------------
(* Properties of the requests sent to the backend *)

\* The message is an assistant message with an empty tool_calls array.
EmptyToolCalls(msg) ==
    msg.role = "assistant" /\ "tool_calls" \in DOMAIN msg /\ msg.tool_calls = <<>>

\* The message at position i is a tool message that answers no assistant
\* message: no assistant message with tool_calls stands before it without a
\* user message or another assistant message in between.
OrphanedTool(seq, i) ==
    /\ seq[i].role = "tool"
    /\ ~\E a \in 1..(i - 1) :
           /\ seq[a].role = "assistant"
           /\ HasToolCalls(seq[a])
           /\ \A j \in (a + 1)..(i - 1) : seq[j].role \notin {"assistant", "user"}

SendsHistory == app \in {"chat_app.py", "chat_app_openai.py", "conversation_app_mcp.py"}

\* C12: in chat_app, chat_app_openai and conversation_app_mcp no request sent
\* to the backend contains an assistant message with an empty tool_calls array
\* or an orphaned tool message, whatever the earlier responses were.
C12_NoSequencingViolationSent ==
    SendsHistory
        => \A i \in DOMAIN last_request :
               /\ ~EmptyToolCalls(last_request[i])
               /\ ~OrphanedTool(last_request, i)

-----------------------------------------------------------------------------
(* Properties of chat_app.py: the system prompt and the summary *)

\* A step of chat_app that sends a completion request
CA_RequestStep == app = "chat_app.py" /\ pc' = "completion" /\ posts' # posts

\* The stored system message is the base system prompt.
C13_StoredSystemIsBase ==
    app = "chat_app.py"
        => /\ messages # <<>>
           /\ messages[1] = SystemMessage(system_prompt)

\* A step that builds and sends a request leaves every stored message as it was.
C13_RequestKeepsStored ==
    CA_RequestStep => \A i \in DOMAIN messages : i \in DOMAIN messages' /\ messages'[i] = messages[i]

\* C13: in chat_app the summary is added to the system prompt that is sent and
\* never to the stored one: in every reachable state the first stored message
\* is the base system prompt, and no step that builds a request changes a
\* stored message.
C13_SummaryOnlyInTransmittedCopy ==
    /\ []C13_StoredSystemIsBase
    /\ [][C13_RequestKeepsStored]_vars

\* C13 is reached: a request is in flight whose system message carries the
\* summary of an earlier exchange, while the stored one is the base prompt.
C13_Witness ==
    /\ app = "chat_app.py"
    /\ pc = "completion"
    /\ last_request[1].role = "system"
    /\ last_request[1].content # system_prompt
    /\ messages[1] = SystemMessage(system_prompt)

\* What an assistant message contributes to the reply of its exchange: its
\* text, when it has one, and a note of its tools, when it has tool calls.
ReplyParts(msg) ==
    (IF Get(msg, "content", None) # None THEN <<msg.content>> ELSE <<>>)
    \o (IF HasToolCalls(msg)
        THEN << <<W("[Used tools: ")>>
                \o Join([k \in DOMAIN msg.tool_calls |-> msg.tool_calls[k].function.name],
                        <<W(", ")>>)
                \o <<W("]")>> >>
        ELSE <<>>)

RECURSIVE ReplyPartsFrom(_, _)

\* The contributions of the assistant messages from position j up to the next
\* user message
ReplyPartsFrom(msgs, j) ==
    IF j > Len(msgs) \/ msgs[j].role = "user" THEN <<>>
    ELSE (IF msgs[j].role = "assistant" THEN ReplyParts(msgs[j]) ELSE <<>>)
         \o ReplyPartsFrom(msgs, j + 1)

\* The reply to the user message at position i
ReplyText(msgs, i) == Join(ReplyPartsFrom(msgs, i + 1), <<W(" ")>>)

\* Position i holds a user message that the assistant replied to, with text or
\* with tool calls.
CompletedExchange(msgs, i) ==
    msgs[i].role = "user" /\ msgs[i].content # None /\ ReplyText(msgs, i) # None

RECURSIVE TranscriptOf(_, _, _)

\* The completed exchanges among positions i..last, in order, each as its
\* "User:" line and its "Reachy:" line
TranscriptOf(msgs, i, last) ==
    IF i > last THEN <<>>
    ELSE (IF CompletedExchange(msgs, i)
          THEN <<W("User: ")>> \o msgs[i].content \o <<W("Reachy: ")>> \o ReplyText(msgs, i)
          ELSE <<>>)
         \o TranscriptOf(msgs, i + 1, last)

\* The position of the user message of the turn in progress
CurrentUser(msgs) ==
    CHOOSE i \in DOMAIN msgs :
        msgs[i].role = "user" /\ \A j \in (i + 1)..Len(msgs) : msgs[j].role # "user"

\* The text without its line separators
WithoutNewlines(text) == SelectSeq(text, LAMBDA t : t # W("\n"))

\* A request of chat_app is in flight.
CA_RequestInFlight == app = "chat_app.py" /\ pc = "completion" /\ last_request # <<>>

\* C14: while a completion request of chat_app is in flight, the system prompt
\* it carries is the base prompt when the stored history holds no completed
\* exchange before the turn in progress; otherwise it is the base prompt
\* followed by the summary block, whose lines are, in order, exactly the
\* completed exchanges: the user message and the assistant text with the note
\* of the tools used. An exchange without assistant reply is not listed.
C14_PromptListsCompletedExchanges ==
    CA_RequestInFlight
        => LET transcript == TranscriptOf(messages, 2, CurrentUser(messages) - 1)
               sent == last_request[1].content
           IN  /\ last_request[1].role = "system"
               /\ transcript = <<>> => sent = system_prompt
               /\ transcript # <<>>
                      => WithoutNewlines(sent)
                             = system_prompt \o <<W("\n\n"), W("\n=== Conversation Summary ===\n")>>
                               \o transcript
                               \o <<W("\n=== End Summary ===\n"),
                                    W("\n\nPlease continue the conversation naturally from where you left off.")>>

\* C14 is reached: the second request of a turn is in flight, the history
\* holds an exchange with a reply and one without, and the prompt carries the
\* summary.
C14_Witness ==
    /\ CA_RequestInFlight
    /\ iteration = 2
    /\ last_request[1].content # system_prompt
    /\ \E i \in 2..(CurrentUser(messages) - 1) :
           messages[i].role = "user" /\ ~CompletedExchange(messages, i)

-----------------------------------------------------------------------------
(* Properties of the stored history *)

\* C15: in chat_app, chat_app_openai, conversation_app_mcp and
\* chat_completions_mcp the stored history is never empty and its first
\* message has role system, through turns, aborted turns and /clear.
C15_HistoryStartsWithSystem ==
    /\ messages # <<>>
    /\ messages[1].role = "system"

-----------------------------------------------------------------------------
(* Properties of the extraction of a tool call from content *)

\* The value of a parameter is a string that the extraction takes for encoded
\* JSON (in brackets or braces), or a mapping that holds one at some depth.
RECURSIVE LooksEncoded(_)

LooksEncoded(value) ==
    \/ IsStr(value) /\ LooksLikeJson(Strip(value.v))
    \/ IsDict(value) /\ \E key \in DOMAIN value.v : LooksEncoded(value.v[key])

\* A JSON object none of whose string values looks like encoded JSON
PlainMapping(parameters) == IsDict(parameters) /\ ~LooksEncoded(parameters)

\* arguments is parameters with the keys of value "null" or "None" omitted,
\* "true" and "false" replaced by booleans, and every other key and value kept
IsLiteralRepairOf(arguments, parameters) ==
    /\ IsDict(arguments)
    /\ DOMAIN arguments.v
           = { key \in DOMAIN parameters.v :
                 parameters.v[key] # JStr(Word("null")) /\ parameters.v[key] # JStr(Word("None")) }
    /\ \A key \in DOMAIN arguments.v :
           arguments.v[key]
               = CASE parameters.v[key] = JStr(Word("true")) -> JBool(TRUE)
                   [] parameters.v[key] = JStr(Word("false")) -> JBool(FALSE)
                   [] OTHER -> parameters.v[key]

\* The content is '{"name": <a known tool>, "parameters": <a JSON object>}'.
NamesToolWithMapping(content) ==
    /\ NamesKnownTool(content)
    /\ DOMAIN JsonLoads(content).val.v = {Word("name"), Word("parameters")}
    /\ IsDict(JsonLoads(content).val.v[Word("parameters")])

NameIn(content) == JsonLoads(content).val.v[Word("name")].v

ParametersIn(content) == JsonLoads(content).val.v[Word("parameters")]

\* A response without native tool calls arrives in chat_app, finish_reason
\* stop, whose content names a known tool with a mapping of parameters.
C16_Case ==
    /\ app = "chat_app.py"
    /\ ResponseStep
    /\ response'.finish_reason = "stop"
    /\ ~HasToolCalls(response'.message)
    /\ NamesToolWithMapping(response'.message.content)

\* The step yields the tool call of the content and hands it to the executor
\* with the literal repair of its parameters.
C16_Yields ==
    LET content == response'.message.content IN
    /\ HasToolCalls(Last(messages'))
    /\ Last(messages').tool_calls[1].function.name = NameIn(content)
    /\ pc' = "tool"
    /\ Len(executed') = 1
    /\ executed'[1].name = NameIn(content)
    /\ IsLiteralRepairOf(executed'[1].arguments, ParametersIn(content))

NoBracePair(content) ==
    ~\E i, j \in DOMAIN content : i < j /\ content[i] = P("{") /\ content[j] = P("}")

\* _parse_tool_call_from_content of the entry point that runs
ParseOf(content) ==
    IF app = "chat_app.py" THEN CA_parse_tool_call_from_content(content)
    ELSE CM_parse_tool_call_from_content(content)

\* A response arrives in chat_app or conversation_app_mcp whose content is a
\* non-empty text
ContentStep ==
    /\ InLoopsWithRecovery
    /\ ResponseStep
    /\ Get(response'.message, "content", None) # None

\* C17: a response with a non-empty content without a pair of braces, without
\* native tool calls and with finish_reason stop: the extraction gives none,
\* nothing is synthesized, no tool is executed, and the turn returns exactly
\* the content.
C17_BracelessTextIsTheAnswer ==
    [][ContentStep
       /\ NoBracePair(response'.message.content)
       /\ ~HasToolCalls(response'.message)
       /\ response'.finish_reason = "stop"
       => /\ ParseOf(response'.message.content) = NoToolCall
          /\ ~HasToolCalls(Last(messages'))
          /\ Last(messages').content = response'.message.content
          /\ executed' = executed
          /\ pc' = "idle"
          /\ outcome' = Returned(response'.message.content)]_vars

\* C17 is reached: the content was '} and {', and the turn has returned it
\* without a tool call.
C17_Witness ==
    /\ InLoopsWithRecovery
    /\ response.finish_reason = "stop"
    /\ response.message.content = <<P("}"), W(" and "), P("{")>>
    /\ outcome = Returned(<<P("}"), W(" and "), P("{")>>)
    /\ executed = <<>>

\* The content is handed to _parse_tool_call_from_content: it is non-empty and
\* the message has no native tool call.
ParsedStep == ContentStep /\ ~HasToolCalls(response'.message)

\* C18: whenever process_message hands a content to the extraction, of
\* whatever shape, no exception leaves the extraction: its result is none or a
\* call of a known tool, the turn does not end by an exception of the parse,
\* the result is the one the content and the known tools determine (it is
\* what the stored message carries), and the messages stored before are
\* unchanged.
C18_ExtractionNeverRaises ==
    [][ParsedStep
       => LET r == ParseOf(response'.message.content) IN
          /\ r.raised = ""
          /\ r = NoToolCall \/ (r.found /\ r.name \in mcp_tools)
          /\ outcome' # Raised("json.JSONDecodeError")
          /\ IsPrefix(messages, messages')
          /\ Len(messages') = Len(messages) + 1
          /\ IF r.found
             THEN /\ Len(Last(messages').tool_calls) = 1
                  /\ Last(messages').tool_calls[1].function
                         = [name |-> r.name, arguments |-> JStr(JsonDumps(r.arguments))]
             ELSE Last(messages') = response'.message
                  \/ Last(messages') = Del(response'.message, "tool_calls")]_vars

\* C18 is reached: the content was '{hello}', which json.loads rejects twice,
\* and the turn has returned it as text.
C18_Witness ==
    /\ InLoopsWithRecovery
    /\ response.finish_reason = "stop"
    /\ response.message.content = <<P("{"), W("hello"), P("}")>>
    /\ outcome = Returned(<<P("{"), W("hello"), P("}")>>)

\* The content is the text of a JSON object whose "name" is not a known tool.
NamesUnknownTool(content) ==
    LET r == JsonLoads(content) IN
    /\ r.ok
    /\ IsDict(r.val)
    /\ Word("name") \in DOMAIN r.val.v
    /\ ~(IsStr(r.val.v[Word("name")]) /\ r.val.v[Word("name")].v \in mcp_tools)

\* A tool call is synthesized in the step: the response had no native call and
\* the stored message has a tool_calls entry.
Synthesized == ~HasToolCalls(response'.message) /\ HasToolCalls(Last(messages'))

\* C19: a tool call is synthesized from content only with the name of a known
\* tool; for content whose JSON names no known tool the extraction gives none,
\* no tool_calls entry is synthesized, no tool is dispatched, and the content
\* is the text of the reply: the turn returns it, or keeps it as its answer
\* and goes on to the next request.
C19_OnlyKnownToolsRecovered ==
    [][ParsedStep
       => /\ Synthesized => \A k \in DOMAIN Last(messages').tool_calls :
                                Last(messages').tool_calls[k].function.name \in mcp_tools
          /\ NamesUnknownTool(response'.message.content)
                 => /\ ParseOf(response'.message.content) = NoToolCall
                    /\ ~Synthesized
                    /\ executed' = executed
                    /\ pc' # "tool"
                    /\ \/ pc' = "idle" /\ outcome' = Returned(response'.message.content)
                       \/ pc' = "completion" /\ final_response' = response'.message.content
                    /\ response'.finish_reason = "stop"
                           => outcome' = Returned(response'.message.content)]_vars

\* C19 is reached: the content was '{"name": "fly_away", "parameters": {}}',
\* fly_away is no known tool, and the turn has returned the content without a
\* tool call.
C19_Witness ==
    /\ InLoopsWithRecovery
    /\ response.finish_reason = "stop"
    /\ response.message.content = ToolCallText(JStr(Word("fly_away")), JDict(EmptyMap))
    /\ ~HasToolCalls(Last(messages))
    /\ executed = <<>>
    /\ outcome = Returned(ToolCallText(JStr(Word("fly_away")), JDict(EmptyMap)))

\* The text holds a tool call: the part from its first opening brace to its
\* last closing brace is a JSON object whose "name" is a known tool.
HoldsToolCallText(content) ==
    /\ Find(content, P("{")) # 0
    /\ Find(content, P("{")) < RFind(content, P("}"))
    /\ NamesKnownTool(SubSeq(content, Find(content, P("{")), RFind(content, P("}"))))

\* A response arrives that carries native tool calls and, in its content, the
\* text of a tool call.
C20_Case ==
    /\ InLoopsWithRecovery
    /\ ResponseStep
    /\ HasToolCalls(response'.message)
    /\ HoldsToolCallText(Get(response'.message, "content", None))

\* The native entries are stored as they came: nothing is synthesized or
\* added, and the content stays the text of the answer so far.
C20_NothingSynthesized ==
    C20_Case
        => /\ Last(messages') = response'.message
           /\ \A k \in DOMAIN Last(messages').tool_calls :
                  Last(messages').tool_calls[k].id[1] = "tc"
           /\ pc' # "idle" => final_response' = response'.message.content

\* Only native calls are handed to the executor.
C20_OnlyNativeExecuted ==
    C20_Case
        => \A k \in DOMAIN executed' \ DOMAIN executed :
               \E n \in DOMAIN response'.message.tool_calls :
                   /\ executed'[k].id = response'.message.tool_calls[n].id
                   /\ executed'[k].name = response'.message.tool_calls[n].function.name

\* The loop walks the native calls: the first one is handed to the executor.
C20_NativeExecuted ==
    C20_Case
        => /\ pc' = "tool"
           /\ tool_calls' = response'.message.tool_calls
           /\ tc_index' = 1
           /\ executed' = Append(executed, [id |-> tool_calls'[1].id,
                                            name |-> tool_calls'[1].function.name,
                                            arguments |-> JDict(EmptyMap)])

\* The native calls take precedence over the text: nothing is synthesized and
\* no call but a native one is executed.
C20_NativeTakesPrecedence == [][C20_NothingSynthesized /\ C20_OnlyNativeExecuted]_vars

\* C20: when a response carries native tool calls and a tool call as text in
\* its content, the native entries are stored unchanged, nothing is
\* synthesized from the content, and the calls executed are exactly the
\* native ones: the loop hands them to the executor, starting with the first.
C20_NativeCallsAreAuthoritative ==
    [][C20_NothingSynthesized /\ C20_OnlyNativeExecuted /\ C20_NativeExecuted]_vars



\* _clean_tool_arguments of the loop that is running
clean_tool_arguments(arguments) ==
    IF app = "chat_app.py" THEN CA_clean_tool_arguments(arguments)
    ELSE CM_clean_tool_arguments(arguments)

\* A tool call is in flight whose arguments decode to a mapping: the mapping
\* the loop handed to _clean_tool_arguments
CleanedArguments == DecodeArguments(tool_calls[tc_index].function.arguments)

\* C21: for every arguments object, applying _clean_tool_arguments twice
\* yields the same result as applying it once: the arguments handed to
\* call_tool are the result of one pass, and a second pass leaves them as
\* they are.
C21_LiteralRepairIsIdempotent ==
    InLoopsWithRecovery /\ pc = "tool"
        => /\ Last(executed).arguments = clean_tool_arguments(CleanedArguments)
           /\ clean_tool_arguments(clean_tool_arguments(CleanedArguments))
                  = clean_tool_arguments(CleanedArguments)

\* A call is in flight whose arguments held "null", "true" and other values:
\* the pass has omitted a key and converted a value.
C21_Witness ==
    /\ InLoopsWithRecovery
    /\ pc = "tool"
    /\ \E key \in DOMAIN CleanedArguments.v : CleanedArguments.v[key] = JStr(Word("null"))
    /\ \E key \in DOMAIN CleanedArguments.v :
           /\ CleanedArguments.v[key] = JStr(Word("true"))
           /\ Last(executed).arguments.v[key] = JBool(TRUE)
    /\ DOMAIN Last(executed).arguments.v # DOMAIN CleanedArguments.v

\* _fix_double_encoded_params of the loop that is running
fix_double_encoded_params(params) ==
    IF app = "chat_app.py" THEN CA_fix_double_encoded_params(params)
    ELSE CM_fix_double_encoded_params(params)

\* value is the string stringify(x) of a JSON array or object x
IsStringified(value) ==
    /\ IsStr(value)
    /\ JsonLoads(value.v).ok
    /\ JsonLoads(value.v).val.t \in {"list", "dict"}
    /\ JsonDumps(JsonLoads(value.v).val) = value.v

\* A response without native tool calls arrives, finish_reason stop, whose
\* content names a known tool with a mapping of parameters: the extraction
\* runs the double-encoding repair on the mapping.
RepairStep ==
    /\ InLoopsWithRecovery
    /\ ResponseStep
    /\ response'.finish_reason = "stop"
    /\ ~HasToolCalls(response'.message)
    /\ NamesToolWithMapping(response'.message.content)

\* The arguments of the tool call that the step synthesized
RepairedArguments == JsonLoads(Last(messages').tool_calls[1].function.arguments.v).val

\* The repair of the parameters is what the step stores in the synthetic call.
RepairIsStored ==
    RepairStep
        => /\ HasToolCalls(Last(messages'))
           /\ RepairedArguments
                  = fix_double_encoded_params(ParametersIn(response'.message.content))

\* A parameter whose value is stringify(x) has the value x after the repair.
RepairYieldsX(a) ==
    RepairStep /\ app = a
        => LET params == ParametersIn(response'.message.content) IN
           \A key \in DOMAIN params.v :
               IsStringified(params.v[key])
                   => /\ key \in DOMAIN RepairedArguments.v
                      /\ RepairedArguments.v[key] = JsonLoads(params.v[key].v).val

\* The round trip in chat_app: the parsed value is stored as it is.
C22_RoundTripsInChatApp == [][RepairIsStored /\ RepairYieldsX("chat_app.py")]_vars

\* C22: in chat_app and in conversation_app_mcp, for every JSON array or
\* object x, also one that holds strings that look like JSON, the repair of a
\* parameter whose value is the string stringify(x) yields exactly x.
C22_RepairRoundTrips ==
    [][/\ RepairIsStored
       /\ RepairYieldsX("chat_app.py")
       /\ RepairYieldsX("conversation_app_mcp.py")]_vars

\* A second pass of the repair over the stored result of the first changes
\* nothing.
RepairIsIdempotent(a) ==
    RepairStep /\ app = a
        => fix_double_encoded_params(RepairedArguments) = RepairedArguments

\* The repair is idempotent in conversation_app_mcp, which repairs the mapping
\* that a string decodes to at once.
C23_IdempotentInConversationApp ==
    [][RepairIsStored /\ RepairIsIdempotent("conversation_app_mcp.py")]_vars

\* C23: in chat_app and in conversation_app_mcp, for every mapping of
\* parameters, also one whose encoded strings decode to mappings that hold
\* further encoded strings, applying the double-encoding repair twice yields
\* the same result as applying it once.
C23_RepairIsIdempotent ==
    [][/\ RepairIsStored
       /\ RepairIsIdempotent("chat_app.py")
       /\ RepairIsIdempotent("conversation_app_mcp.py")]_vars

\* The assistant message carries plain text: a non-empty content that was not
\* converted into a synthetic tool call.
CarriesPlainText(msg) ==
    /\ msg.role = "assistant"
    /\ Get(msg, "content", None) # None
    /\ \A k \in DOMAIN Get(msg, "tool_calls", <<>>) : msg.tool_calls[k].id[1] # "call_"

\* The non-empty contents of the assistant messages of the turn
AssistantTexts(msgs) ==
    { TurnMessages(msgs)[i].content :
        i \in { j \in DOMAIN TurnMessages(msgs) :
                  /\ TurnMessages(msgs)[j].role = "assistant"
                  /\ Get(TurnMessages(msgs)[j], "content", None) # None } }

\* C24: a turn of chat_app or conversation_app_mcp in which an assistant
\* message carried plain text returns assistant text of this turn, not a
\* placeholder or fallback string, whatever the later iterations return and
\* also when the iteration budget is exhausted.
C24_AnswerIsNeverLost ==
    [][/\ InLoopsWithRecovery
       /\ TurnEndsAfterResponse
       /\ outcome'.kind = "returned"
       /\ \E i \in DOMAIN TurnMessages(messages') : CarriesPlainText(TurnMessages(messages')[i])
       => outcome'.value \in AssistantTexts(messages')]_vars

\* The position of the n-th '"' of the text
QuoteAt(text, n) ==
    CHOOSE i \in DOMAIN text :
        /\ text[i] = Quote
        /\ Cardinality({ j \in 1..i : text[j] = Quote }) = n

\* The texts enclosed between the 1st and 2nd, 3rd and 4th, ... '"' of the
\* text, in order, without the empty ones
QuotedTexts(text) ==
    LET quotes == Cardinality({ i \in DOMAIN text : text[i] = Quote })
        enclosed == [k \in 1..(quotes \div 2) |->
                        SubSeq(text, QuoteAt(text, 2 * k - 1) + 1, QuoteAt(text, 2 * k) - 1)]
    IN  SelectSeq(enclosed, LAMBDA quoted : quoted # <<>>)

\* A fragment of the stream arrives and is parsed.
TokenStep == app = "conversation_app.py" /\ pc = "stream" /\ full_response' # full_response

\* The items from position n + 1 on
From(seq, n) == SubSeq(seq, n + 1, Len(seq))

\* A fragment appends to the speech queue the quoted texts that it closes, and
\* nothing else does.
C25_FlushedAtClosingQuote ==
    /\ TokenStep
           => speech_queue' = speech_queue
                                \o From(QuotedTexts(full_response'),
                                        Len(QuotedTexts(full_response)))
    /\ ~TokenStep => speech_queue' = speech_queue

\* In the first turn of a session the speech queue holds the quoted texts of
\* the stream so far.
C25_QueueOfFirstTurn ==
    app = "conversation_app.py" /\ pc = "stream" /\ Turns(messages) = 1
        => speech_queue = QuotedTexts(full_response)

\* C25: the streaming parser appends to the speech queue, in the order of
\* their closing quotes, exactly the non-empty texts between the 1st and 2nd,
\* 3rd and 4th, ... '"' of the streamed text of the turn, each when its
\* closing quote arrives; the text after an unmatched opening quote is never
\* queued.
C25_QuotedTextsAreQueued == []C25_QueueOfFirstTurn /\ [][C25_FlushedAtClosingQuote]_vars

\* The stream so far is '"a""*"': each pair of quotes gave an item, in the
\* order of the closing quotes.
C25_Witness ==
    /\ app = "conversation_app.py"
    /\ pc = "stream"
    /\ full_response = <<Quote, W("a"), Quote, Quote, Star, Quote>>
    /\ speech_queue = << <<W("a")>>, <<Star>> >>

\* The parser after __init__ or a reset, with empty queues
FreshParser ==
    [speech_queue |-> <<>>, action_queue |-> <<>>, current_quote |-> <<>>,
     current_action |-> <<>>, in_quote |-> FALSE, in_action |-> FALSE, star_count |-> 0]

\* The result of feeding the whole text to parse_token as one fragment
OneFragment(text) == CS_parse_token(FreshParser, text)

\* While a stream is consumed, the parser is where one fragment with the
\* whole text so far would have left it; in the first turn of a session, when
\* the queues were empty before, so are the queues.
C26_StateOfOneFragment ==
    app = "conversation_app.py" /\ pc = "stream"
        => LET whole == OneFragment(full_response) IN
           /\ current_quote = whole.current_quote
           /\ current_action = whole.current_action
           /\ in_quote = whole.in_quote
           /\ in_action = whole.in_action
           /\ star_count = whole.star_count
           /\ Turns(messages) = 1
                  => /\ speech_queue = whole.speech_queue
                     /\ action_queue = whole.action_queue

\* A fragment appends to the queues what the whole text gives beyond what the
\* text before the fragment gave.
C26_QueuesOfOneFragment ==
    TokenStep
        => /\ speech_queue' = speech_queue
                                \o From(OneFragment(full_response').speech_queue,
                                        Len(OneFragment(full_response).speech_queue))
           /\ action_queue' = action_queue
                                \o From(OneFragment(full_response').action_queue,
                                        Len(OneFragment(full_response).action_queue))

\* C26: the result of the streaming parser does not depend on fragmentation:
\* however the text is split into fragments, down to single characters and
\* between the two stars of a delimiter, the queues and the parser state are
\* those of feeding the whole text as one fragment; a lone star at the end of
\* a fragment is held in the star counter.
C26_FragmentationDoesNotMatter ==
    []C26_StateOfOneFragment /\ [][C26_QueuesOfOneFragment]_vars

\* The fragments so far end between the two stars that close '**a**': the
\* lone star is held, and the action is still open.
C26_Witness ==
    /\ app = "conversation_app.py"
    /\ pc = "stream"
    /\ full_response = <<Star, Star, W("a"), Star>>
    /\ star_count = 1
    /\ in_action
    /\ current_action = <<W("a")>>
    /\ action_queue = <<>>

\* The fragment that the step appends to the stream
Fragment == From(full_response', Len(full_response))

\* C27: while the streaming parser is inside a quote, a star is literal text:
\* it is appended to the quote text and changes neither in_action, nor the
\* star counter, nor the action buffer, nor the action queue.
C27_StarInQuoteIsLiteral ==
    [][TokenStep /\ in_quote /\ (\A i \in DOMAIN Fragment : Fragment[i] = Star)
       => /\ current_quote' = current_quote \o Fragment
          /\ in_quote'
          /\ in_action' = in_action
          /\ star_count' = star_count
          /\ current_action' = current_action
          /\ action_queue' = action_queue
          /\ speech_queue' = speech_queue]_vars

\* The stream so far is '*"*': the star inside the quote is in the quote
\* text, and the star counter still holds the one star before the quote.
C27_Witness ==
    /\ app = "conversation_app.py"
    /\ pc = "stream"
    /\ full_response = <<Star, Quote, Star>>
    /\ in_quote
    /\ current_quote = <<Star>>
    /\ star_count = 1
    /\ ~in_action

\* The items of a sequence
Items(seq) == { seq[i] : i \in DOMAIN seq }

\* A turn has started and no fragment of its stream has been consumed yet:
\* the parser is reset.
C28_ResetBeforeStream ==
    app = "conversation_app.py" /\ pc = "stream" /\ full_response = <<>>
        => /\ ~in_quote
           /\ ~in_action
           /\ star_count = 0
           /\ current_quote = <<>>
           /\ current_action = <<>>

\* The step that starts a turn resets the parser and leaves the queues.
C28_TurnStartResets ==
    app = "conversation_app.py" /\ pc = "idle" /\ pc' = "stream"
        => /\ ~in_quote' /\ ~in_action' /\ star_count' = 0
           /\ current_quote' = <<>> /\ current_action' = <<>>
           /\ full_response' = <<>>
           /\ speech_queue' = speech_queue /\ action_queue' = action_queue

\* The items a fragment queues are items of the text of this turn alone.
C28_ItemsOfThisTurn ==
    TokenStep
        => /\ Items(From(speech_queue', Len(speech_queue)))
                  \subseteq Items(QuotedTexts(full_response'))
           /\ Items(From(action_queue', Len(action_queue)))
                  \subseteq Items(OneFragment(full_response').action_queue)

\* C28: the streaming parser is reset at the start of every turn, before the
\* new stream is consumed, so the text of a quote or an action that the turn
\* before left unterminated is never part of an item queued later.
C28_ParserResetEveryTurn ==
    []C28_ResetBeforeStream /\ [][C28_TurnStartResets /\ C28_ItemsOfThisTurn]_vars

\* The first turn streamed '"a' and left the quote open; the second turn has
\* streamed 'a"' so far: its quote has only been opened, and nothing is queued.
C28_Witness ==
    /\ app = "conversation_app.py"
    /\ pc = "stream"
    /\ Turns(messages) = 2
    /\ messages[3] = [role |-> "assistant", content |-> <<Quote, W("a")>>]
    /\ full_response = <<W("a"), Quote>>
    /\ in_quote
    /\ current_quote = <<>>
    /\ speech_queue = <<>>

\* A call of operate_robot with a list of commands has ended.
SequenceEnded ==
    /\ app = "server.py"
    /\ pc = "idle"
    /\ outcome # NoOutcome
    /\ commands.t = "list"

\* The entries of status failed
FailedEntries(res) == { k \in DOMAIN res : res[k].status = "failed" }

\* The returned dictionary r accounts for the commands cmds: one entry per
\* command in order, the counts, and the overall status.
AccountsFor(r, cmds) ==
    /\ r.total_commands = Len(cmds)
    /\ Len(r.results) = Len(cmds)
    /\ \A k \in DOMAIN r.results :
           /\ r.results[k].command_index = k - 1
           /\ "status" \in DOMAIN r.results[k]
           /\ r.results[k].status \in {"success", "failed"}
    /\ r.failed = Cardinality(FailedEntries(r.results))
    /\ r.successful + r.failed = r.total_commands
    /\ r.status = "success" <=> r.failed = 0
    /\ r.status = "partial" <=> 0 < r.failed /\ r.failed < Len(cmds)
    /\ r.status = "failed" <=> Len(cmds) > 0 /\ r.failed = Len(cmds)

\* Whenever operate_robot returns for a list of commands, the dictionary it
\* returns accounts for the commands.
C29_ReturnedResultAccounts ==
    SequenceEnded /\ outcome.kind = "returned" => AccountsFor(outcome.value, commands.v)

\* C29: for every list of commands, operate_robot returns total_commands equal
\* to the length of the list and a results array with one entry per command,
\* in order, each with its position as command_index and a status;
\* successful + failed = total_commands; and the overall status is success
\* iff no command failed, partial iff some but not all failed, and failed iff
\* all commands of a non-empty list failed.
C29_ResultAccountsForEveryCommand ==
    SequenceEnded
        => /\ outcome.kind = "returned"
           /\ AccountsFor(outcome.value, commands.v)

\* The commands are executed one after the other in list order: the tools
\* called so far belong to increasing positions, and while a tool runs every
\* earlier command has its entry.
C30_Sequential ==
    app = "server.py"
        => /\ \A j, k \in DOMAIN executed :
                  j < k => executed[j].command_index < executed[k].command_index
           /\ pc = "tool"
                  => /\ Last(executed).command_index = command_idx
                     /\ Len(results) = command_idx
                     /\ \A k \in DOMAIN results : results[k].command_index = k - 1

\* A failing command does not stop the sequence: in the dictionary returned,
\* every entry of status failed has an error, and every command of the list,
\* also after a failed one, has its entry.
C30_FailureDoesNotStop ==
    SequenceEnded /\ outcome.kind = "returned"
        => /\ \A k \in FailedEntries(outcome.value.results) :
                  "error" \in DOMAIN outcome.value.results[k]
           /\ Len(outcome.value.results) = Len(commands.v)
           /\ \A k \in DOMAIN executed :
                  outcome.value.results[executed[k].command_index + 1].status
                      \in {"success", "failed"}

\* What holds of C30: the order of execution, and the entries of the result
\* whenever operate_robot returns.
C30_SequentialWhenReturned == C30_Sequential /\ C30_FailureDoesNotStop

\* C30: operate_robot executes the commands sequentially in list order, and a
\* failing command never stops the sequence: whatever the commands are (not a
\* dictionary, missing or unknown bodyPart, invalid or non-string power state,
\* tool missing from the registry, tool raising), the call returns a result
\* instead of raising, the failed command's entry has status failed with an
\* error, and every later command is still attempted.
C30_FailingCommandNeverStops ==
    /\ C30_Sequential
    /\ SequenceEnded => outcome.kind = "returned"
    /\ C30_FailureDoesNotStop

-----------------------------------------------------------------------------
(* Properties of the state machine of the turn loops *)

\* A step that issues a further completion request within a turn.
FurtherRequestStep == pc # "idle" /\ posts' = posts + 1

\* A step in which a response without any tool call arrives: the assistant
\* message that is stored has no tool calls, native or synthesized.
NoCallResponseStep == ResponseStep /\ ~HasToolCalls(Last(messages'))

\* C31, first part: a further request is issued only by the step in which the
\* last tool call of the previous response returns or fails, every call of
\* that response having been handed to the executor.
C31_RequestAfterTools ==
    FurtherRequestStep /\ InLoopsWithRecovery
        => /\ pc = "tool"
           /\ tc_index = Len(tool_calls)
           /\ Len(executed) >= Len(tool_calls)
           /\ \A k \in 1..Len(tool_calls) :
                  executed[Len(executed) - Len(tool_calls) + k].id = tool_calls[k].id

\* C31, second part: a response without any tool call ends the turn.
C31_NoCallEndsTurn == NoCallResponseStep /\ InLoopsWithRecovery => pc' = "idle"

\* C31 in chat_app alone: the loop breaks on every response without a tool call.
C31_StateMachineOfChatApp ==
    [][app = "chat_app.py" => C31_RequestAfterTools /\ C31_NoCallEndsTurn]_vars

\* C31: the turn loops of chat_app and conversation_app_mcp follow the state
\* machine AwaitingCompletion -> {HasToolCalls, HasText, Truncated, Empty} ->
\* (ExecutingTools -> AwaitingCompletion) | Terminal: within a turn a further
\* completion request is issued only after the tool calls of the previous
\* response were executed, and a response without any tool call, native or
\* recovered, always ends the turn, whatever its finish_reason.
C31_TurnLoopStateMachine == [][C31_RequestAfterTools /\ C31_NoCallEndsTurn]_vars

\* A step in which an assistant message with tool calls, native or
\* synthesized, is stored.
CallingResponseStep == ResponseStep /\ HasToolCalls(Last(messages'))

\* The turn goes on after a step: a call or a completion is awaited, or the
\* loop has used its iterations and process_message returns.
TurnGoesOn ==
    \/ pc' \in {"tool", "completion"}
    \/ pc' = "idle" /\ outcome'.kind = "returned" /\ iteration = MaxIterations

\* C32, first part: whatever the executor returns or raises for the awaited
\* call, a tool message with the id of that call is appended and the turn
\* goes on.
C32_ToolMessageAppended ==
    InLoopsWithRecovery /\ pc = "tool" /\ pc' # pc
        => /\ messages' = Append(messages, Last(messages'))
           /\ Last(messages').role = "tool"
           /\ Last(messages').tool_call_id = tool_calls[tc_index].id
           /\ TurnGoesOn

\* C32, second part: whatever the arguments field of a call is, the step that
\* reaches the call does not leave the turn by an exception.
C32_ArgumentsNeverAbort ==
    InLoopsWithRecovery /\ (CallingResponseStep \/ pc = "tool") => outcome'.kind # "raised"

\* The calls of the awaited response all have arguments that decode to a mapping.
MappingArguments(calls) ==
    \A k \in DOMAIN calls : IsDict(DecodeArguments(calls[k].function.arguments))

\* C32 for calls whose arguments decode to a mapping, in chat_app: the turn is
\* never left by an exception of the for loop.
C32_MappingArgumentsInChatApp ==
    [][/\ app = "chat_app.py"
       /\ \/ CallingResponseStep /\ MappingArguments(Last(messages').tool_calls)
          \/ pc = "tool" /\ MappingArguments(tool_calls)
       => outcome'.kind # "raised"]_vars

\* C32: in chat_app and conversation_app_mcp no tool invocation failure aborts
\* the turn: for every tool call of an assistant message, whatever its
\* arguments field is and whatever the executor returns or raises (a result
\* with an empty content list included), a tool message is appended for that
\* call and the loop continues.
C32_NoToolFailureAbortsTurn == [][C32_ToolMessageAppended /\ C32_ArgumentsNeverAbort]_vars

-----------------------------------------------------------------------------
(* Properties of the sequencing of the stored history *)

\* Every assistant message of msgs that has tool calls is directly followed
\* by exactly one tool message per call, in the order of the calls.
WellSequenced(msgs) ==
    \A i \in DOMAIN msgs :
        msgs[i].role = "assistant" /\ HasToolCalls(msgs[i])
            => LET calls == msgs[i].tool_calls
                   n == Len(calls)
               IN  /\ i + n <= Len(msgs)
                   /\ \A k \in 1..n :
                          /\ msgs[i + k].role = "tool"
                          /\ msgs[i + k].tool_call_id = calls[k].id
                   /\ i + n < Len(msgs) => msgs[i + n + 1].role # "tool"

\* A turn has returned normally.
TurnReturned == pc = "idle" /\ outcome.kind = "returned"

\* C33 for the messages of the turn that returned, in conversation_app_mcp:
\* each assistant message of the turn with tool calls has its tool messages.
C33_ReturnedTurnOfConversationApp ==
    app = "conversation_app_mcp.py" /\ TurnReturned => WellSequenced(TurnMessages(messages))

\* C33: in chat_app and conversation_app_mcp, at the end of every turn that
\* returns normally, every assistant message of the stored history with a
\* non-empty tool_calls field, native or synthesized, is followed, before the
\* next user or assistant message, by exactly one tool message per call.
C33_HistoryKeepsSequencing == InLoopsWithRecovery /\ TurnReturned => WellSequenced(messages)

-----------------------------------------------------------------------------
(* Properties of the recovery of a tool call that was cut short *)

\* The numbers of opening and of closing braces of a text, outside its strings
Opens(text) == Cardinality({i \in DOMAIN text : text[i] = P("{")})

Closes(text) == Cardinality({i \in DOMAIN text : text[i] = P("}")})

\* The braces a text lacks
Lacks(text) == Opens(text) - Closes(text)

\* The content from its first opening brace to the end of its JSON text: the
\* prose behind it is left out.
JsonPart(content) ==
    LET start == Find(content, P("{"))
        ends == {i \in DOMAIN content : content[i].k # "w"}
    IN  IF start = 0 THEN <<>>
        ELSE SubSeq(content, start, CHOOSE i \in ends : \A j \in ends : j <= i)

\* The slice the extraction parses: from the first '{' to the last '}'
SliceOf(content) == SubSeq(content, Find(content, P("{")), RFind(content, P("}")))

\* The JSON text of the content is that of a known-tool call but for exactly
\* one closing brace.
LacksOneBrace(content) ==
    /\ JsonPart(content) # <<>>
    /\ Lacks(JsonPart(content)) = 1
    /\ NamesKnownTool(JsonPart(content) \o <<P("}")>>)

\* The call the extraction must give for such a content
CompletedCall(content) == JsonLoads(JsonPart(content) \o <<P("}")>>).val.v

\* The extraction recovers the call of the content, and the call is stored
\* with the assistant message.
Recovers(content) ==
    /\ ParseOf(content).found
    /\ ParseOf(content).name = CompletedCall(content)[Word("name")].v
    /\ Synthesized
    /\ Last(messages').tool_calls[1].function.name = CompletedCall(content)[Word("name")].v

\* The extraction gives no tool call, and none is stored.
YieldsNoCall(content) == ParseOf(content) = NoToolCall /\ ~Synthesized

\* C34 as amended, first part: a call that lacks exactly its final closing
\* brace and still ends with a closing brace is recovered.
C34_FinalBraceIsSupplied ==
    ParsedStep /\ LacksOneBrace(response'.message.content)
               /\ Last(JsonPart(response'.message.content)) = P("}")
        => Recovers(response'.message.content)

\* C34 as amended, second part: when the slice from the first '{' to the last
\* '}' lacks two or more closing braces, or the content has no '}', there is
\* no tool call: the retry is made once, with one brace.
C34_OneRetryOnly ==
    ParsedStep /\ \/ RFind(response'.message.content, P("}")) = 0
                  \/ Lacks(SliceOf(response'.message.content)) >= 2
        => YieldsNoCall(response'.message.content)

\* C34, amended: free-text recovery slices the content from its first '{' to
\* its last '}' and retries exactly once with a single '}' appended: a
\* known-tool call that lacks exactly its final closing brace and whose text
\* still ends with a '}' is recovered, also within brace-free prose, while
\* content whose slice lacks two or more closing braces, or that has no '}'
\* at all, yields no tool call.
C34_RecoversCallCutBeforeFinalBrace == [][C34_FinalBraceIsSupplied /\ C34_OneRetryOnly]_vars

\* C34 is reached: the content was 'Sure: {"name": "nod_head", "parameters": {} ok'
\* and nod_head was handed to the executor.
C34_Witness ==
    /\ InLoopsWithRecovery
    /\ response.finish_reason = "stop"
    /\ response.message.content = <<W("Sure: ")>> \o Cut(JsonKnownTool, 1) \o <<W(" ok")>>
    /\ HasToolCalls(Last(messages))
    /\ Len(executed) = 1
    /\ executed[1].name = Word("nod_head")

\* C34, first part as stated: a call that lacks exactly one closing brace (and
\* has a closing brace left) is recovered.
C34_OneMissingBraceRecovered ==
    ParsedStep /\ LacksOneBrace(response'.message.content)
               /\ RFind(response'.message.content, P("}")) # 0
        => Recovers(response'.message.content)

\* C34, second part as stated: content that lacks two or more closing braces,
\* or has none at all, yields no tool call.
C34_MoreMissingBracesYieldNone ==
    ParsedStep /\ \/ RFind(response'.message.content, P("}")) = 0
                  \/ Lacks(JsonPart(response'.message.content)) >= 2
        => YieldsNoCall(response'.message.content)

\* C34: free-text recovery slices the content from its first '{' to its last
\* '}' and, when that slice does not parse, retries exactly once with a single
\* '}' appended: a known-tool call whose JSON lacks exactly one closing brace
\* is recovered, also when surrounded by brace-free prose, while content that
\* lacks two or more closing braces, or that has no '}' at all, yields no tool
\* call.
C34_TruncatedCallRecovery ==
    [][C34_OneMissingBraceRecovered /\ C34_MoreMissingBracesYieldNone]_vars

-----------------------------------------------------------------------------
(* Properties of conversation_app.py: the delimiters of an action *)

\* The parser after the first n characters of the text of the turn
ParserAfter(text, n) == OneFragment(SubSeq(text, 1, n))

\* Character n of the text opens or closes an action segment.
TogglesAction(text, n) ==
    ParserAfter(text, n).in_action # ParserAfter(text, n - 1).in_action

\* C35 for stars that no quote separates: an action segment is opened or
\* closed only by a '*' that directly follows a '*' or a '"'.
C35_StarsSeparatedByText ==
    app = "conversation_app.py" /\ pc = "stream"
        => \A n \in DOMAIN full_response :
               TogglesAction(full_response, n)
                   => /\ full_response[n] = Star
                      /\ n > 1
                      /\ full_response[n - 1] \in {Star, Quote}

\* C35: the streaming parser opens or closes an action segment only on a
\* '**' delimiter, two '*' characters with no other character between them
\* in the stream: two single '*' characters separated by any other text,
\* including a quoted segment, never open or close an action.
C35_ActionOnlyOnDoubleStar ==
    app = "conversation_app.py" /\ pc = "stream"
        => /\ in_action = ParserAfter(full_response, Len(full_response)).in_action
           /\ \A n \in DOMAIN full_response :
                  TogglesAction(full_response, n)
                      => /\ full_response[n] = Star
                         /\ n > 1
                         /\ full_response[n - 1] = Star

-----------------------------------------------------------------------------
(* Properties of server.py: failures in the results of operate_robot *)

\* The execution of the command of an entry failed: the entry records an
\* error, or the tool returned what make_request gives for a failed request.
ExecutionFailed(entry) ==
    \/ "error" \in DOMAIN entry
    \/ "result" \in DOMAIN entry /\ \E e \in RobotErrors : entry.result = make_request_failed(e)

\* The entries of the commands whose execution failed
FailedExecutions(res) == { k \in DOMAIN res : ExecutionFailed(res[k]) }

\* The returned dictionary r shows the failures of the set F of its entries.
ShowsFailures(r, F) ==
    /\ \A k \in F : r.results[k].status = "failed"
    /\ r.failed >= Cardinality(F)
    /\ F # {} => r.status # "success"

\* C36 for the failures that are recorded with an error (an unknown body
\* part, a missing tool, an exception of the tool function): each has status
\* failed, is counted, and the overall status is not success.
C36_RecordedErrorsAreFailed ==
    SequenceEnded /\ outcome.kind = "returned"
        => ShowsFailures(outcome.value,
                         { k \in DOMAIN outcome.value.results :
                               "error" \in DOMAIN outcome.value.results[k] })

\* C36: in the dictionary operate_robot returns, every command whose
\* execution failed, also when the HTTP request to the daemon failed and
\* make_request returned {error, status: failed} instead of raising, has an
\* entry of status failed, is counted in failed, and the overall status is
\* not success.
C36_FailedExecutionsAreShown ==
    SequenceEnded /\ outcome.kind = "returned"
        => ShowsFailures(outcome.value, FailedExecutions(outcome.value.results))

-----------------------------------------------------------------------------
(* Properties of the listeners: the guard flag after a turn *)

Listening == app \in {"conversation_app_mcp.py", "conversation_app.py"}

\* A step in which a turn ends
TurnEndStep == pc # "idle" /\ pc' = "idle"

\* C37, first part: the step that ends a turn, by a return or by an
\* exception, clears the flag.
C37_ClearedAtTurnEnd ==
    Listening /\ TurnEndStep
        => /\ outcome'.kind \in {"returned", "raised"}
           /\ ~processing_speech'

\* C37, second part: while no turn runs the flag is clear.
C37_NotLockedOut == Listening /\ pc = "idle" => ~processing_speech

\* C37, third part: once a turn has ended, the speech_stopped event that the
\* listener receives next starts a new turn.
C37_NextEventStartsTurn ==
    /\ Listening
    /\ outcome # NoOutcome
    /\ EventTakenStep
    /\ Head(socket).type = "speech_stopped"
    => /\ pc' \in {"completion", "stream"}
       /\ processing_speech'
       /\ trigger' = Head(socket)
       /\ messages' = Append(messages, UserMessage(Word("Hello, I just said something to you.")))

\* C37: in conversation_app_mcp and conversation_app the guard flag
\* processing_speech is cleared whenever a turn ends, whether the turn returned
\* or raised, so the listener is never locked out: after any turn has ended,
\* the next speech_stopped event that is received starts a new turn.
C37_FlagClearedAfterEveryTurn ==
    []C37_NotLockedOut /\ [][C37_ClearedAtTurnEnd /\ C37_NextEventStartsTurn]_vars

\* C37 is reached: the first turn was left by an exception of the completion
\* request, and the next speech_stopped event has started a second turn.
C37_Witness ==
    /\ Listening
    /\ pc # "idle"
    /\ processing_speech
    /\ Len(messages) = 3
    /\ messages[2].role = "user"
    /\ messages[3].role = "user"

-----------------------------------------------------------------------------
(* Properties of chat_app.py: _prepare_messages_for_api as a filter *)

\* A message without its tool_calls field when that field is an empty list
WithoutEmptyToolCalls(msg) ==
    IF msg.role = "assistant" /\ "tool_calls" \in DOMAIN msg /\ msg.tool_calls = <<>>
    THEN Del(msg, "tool_calls")
    ELSE msg

RECURSIVE IsFilterOf(_, _)

\* out is inp, in order, with some tool messages left out and the empty
\* tool_calls fields removed; no other message is left out or changed.
IsFilterOf(out, inp) ==
    IF inp = <<>> THEN out = <<>>
    ELSE \/ /\ out # <<>>
            /\ Head(out) = WithoutEmptyToolCalls(Head(inp))
            /\ IsFilterOf(Tail(out), Tail(inp))
         \/ /\ Head(inp).role = "tool"
            /\ IsFilterOf(out, Tail(inp))

\* C38, first part: the output is an order-preserving subsequence of the
\* input that keeps every system, user and assistant message and differs from
\* it only by dropped tool messages and removed empty tool_calls fields.
C38_OutputIsFilterOfInput ==
    Sanitized => IsFilterOf(last_request, messages_with_summary)

\* C38, second part: the sanitizer applied to its own output changes nothing.
C38_Idempotent ==
    Sanitized => CA_prepare_messages_for_api(last_request) = last_request

\* C38, third part: the call leaves the list it is given, and the stored
\* history, as they were.
C38_InputUnmodified ==
    pc = "prepare" /\ pc' = "completion"
        => /\ messages_with_summary' = messages_with_summary
           /\ messages' = messages

\* C38: _prepare_messages_for_api is an idempotent filter: its output is an
\* order-preserving subsequence of the input that keeps every system, user and
\* assistant message and differs from the input only by dropped tool messages
\* and removed empty tool_calls fields; applying it to its own output changes
\* nothing; and it leaves the input list and its messages unmodified.
C38_SanitizerIsIdempotentFilter ==
    /\ [](C38_OutputIsFilterOfInput /\ C38_Idempotent)
    /\ [][C38_InputUnmodified]_vars

\* C38 is reached: the sanitizer has removed an empty tool_calls field and
\* dropped the tool message that followed that assistant message.
C38_Witness ==
    /\ Sanitized
    /\ \E i \in DOMAIN messages_with_summary :
           /\ i < Len(messages_with_summary)
           /\ messages_with_summary[i].role = "assistant"
           /\ "tool_calls" \in DOMAIN messages_with_summary[i]
           /\ messages_with_summary[i].tool_calls = <<>>
           /\ messages_with_summary[i + 1].role = "tool"
           /\ Len(last_request) = Len(messages_with_summary) - 1
           /\ "tool_calls" \notin DOMAIN last_request[i]

-----------------------------------------------------------------------------
(* Properties of conversation_app.py: the two buffers of the parser *)

\* A text without a star and without a quote character
PlainAction(text) == \A j \in DOMAIN text : text[j] \notin {Star, Quote}

\* C39, first part: a character of the stream is appended to at most one of
\* current_quote and current_action; a character inside a quote goes to
\* current_quote and leaves the action text and the action queue alone, a
\* character outside a quote leaves current_quote alone.
C39_OneBufferPerCharacter ==
    app = "conversation_app.py" /\ pc = "stream"
        => \A n \in 1..Len(full_response) :
               LET before == ParserAfter(full_response, n - 1)
                   after == ParserAfter(full_response, n)
                   char == full_response[n]
               IN  /\ ~ /\ after.current_quote = Append(before.current_quote, char)
                        /\ after.current_action = Append(before.current_action, char)
                   /\ before.in_quote /\ char # Quote
                          => /\ after.current_quote = Append(before.current_quote, char)
                             /\ after.current_action = before.current_action
                             /\ after.action_queue = before.action_queue
                   /\ ~before.in_quote
                          => after.current_quote = before.current_quote
                   /\ after.action_queue # before.action_queue
                          => after.action_queue
                                 = Append(before.action_queue, before.current_action)

\* C39, second part: the action text, open or queued, holds no star and no
\* quote character, and a queued action is not empty.
C39_QueuedActionsArePlain ==
    app = "conversation_app.py"
        => /\ PlainAction(current_action)
           /\ \A i \in DOMAIN action_queue :
                  /\ action_queue[i] # <<>>
                  /\ PlainAction(action_queue[i])

\* C39: in the streaming parser every character of the stream is appended to
\* at most one of the two buffers: text inside a quote that is opened while an
\* action is open goes only to the speech text and is absent from the action
\* text that is queued, and a queued action never contains a '*' or '"'
\* character and is never empty.
C39_BuffersAreExclusive == C39_OneBufferPerCharacter /\ C39_QueuedActionsArePlain

\* C39 is reached: the stream so far is '**a"a"': the quote was opened while
\* the action was open, its text is queued as speech, and the action text is
\* the one letter before the quote.
C39_Witness ==
    /\ app = "conversation_app.py"
    /\ pc = "stream"
    /\ full_response = <<Star, Star, W("a"), Quote, W("a"), Quote>>
    /\ in_action
    /\ ~in_quote
    /\ current_action = <<W("a")>>
    /\ speech_queue = << <<W("a")>> >>
    /\ action_queue = <<>>

-----------------------------------------------------------------------------
(* Properties of chat_app.py: the working list and the stored history *)

\* A turn of chat_app is in progress: a request or a tool call is awaited.
CA_TurnInProgress == app = "chat_app.py" /\ pc \in {"completion", "tool"}

\* C40, first part: while a turn is in progress the working list begins with
\* a system message, and without its first element it equals the stored
\* history without its first element.
C40_WorkingListFollowsHistory ==
    CA_TurnInProgress
        => /\ messages_with_summary # <<>>
           /\ messages_with_summary[1].role = "system"
           /\ Tail(messages_with_summary) = Tail(messages)

\* C40, second part: what is sent is the stored history with the first
\* element of the working list for its system message, as the sanitizer
\* leaves it.
C40_SentIsStored ==
    CA_TurnInProgress /\ pc = "completion"
        => last_request
             = CA_prepare_messages_for_api(
                   <<messages_with_summary[1]>> \o Tail(messages))

\* C40, third part: a step within a turn appends the same messages to both
\* lists; the synthesized tool_calls show in both.
C40_AppendedToBoth ==
    CA_TurnInProgress /\ pc' \in {"completion", "tool"}
        => /\ Len(messages_with_summary') - Len(messages_with_summary)
                = Len(messages') - Len(messages)
           /\ From(messages_with_summary', Len(messages_with_summary))
                = From(messages', Len(messages))

\* C40: in chat_app, throughout a turn the working list sent to the backend
\* and the stored history stay in lock-step: after every append (assistant
\* message, synthesized tool_calls, tool message) the working list without its
\* first element equals the stored history without its first element, so the
\* backend is always sent exactly what is stored, apart from the system prompt
\* and the sanitizer's removals.
C40_WorkingListInLockStep ==
    /\ [](C40_WorkingListFollowsHistory /\ C40_SentIsStored)
    /\ [][C40_AppendedToBoth]_vars

\* C40 is reached: the second request of a turn is in flight; the assistant
\* message with the synthesized tool_calls and the tool message of that call
\* are the last two messages of both lists.
C40_Witness ==
    /\ CA_TurnInProgress
    /\ pc = "completion"
    /\ iteration = 2
    /\ Len(messages) >= 4
    /\ Last(messages).role = "tool"
    /\ messages[Len(messages) - 1].role = "assistant"
    /\ HasToolCalls(messages[Len(messages) - 1])
    /\ messages[Len(messages) - 1].tool_calls[1].id = <<"call_", 1>>
    /\ Last(messages_with_summary) = Last(messages)
    /\ messages_with_summary[Len(messages_with_summary) - 1] = messages[Len(messages) - 1]

=============================================================================
